---- MODULE Spec2Model ----
(***************************************************************************)
(* Model of the kafka-microservice event pipeline:                         *)
(*   EventStore            src/src/services/eventStore.js                  *)
(*   KafkaProducerService  src/unnamed/part_001 (lines 5-92)               *)
(*   KafkaConsumerService  src/unnamed/part_001 (lines 98-262)             *)
(*   eventController       src/unnamed/part_001 (lines 426-535)            *)
(* JavaScript runs each synchronous segment of a function to completion;   *)
(* an action of this model is one such segment (from a call or a resumed   *)
(* await up to the next await or the return).                              *)
(***************************************************************************)
EXTENDS Integers, Sequences, FiniteSets, TLC

(***************************************************************************)
(* Bounds of the model.                                                    *)
(***************************************************************************)
MaxCalls == 3          \* direct calls on the store API in one behaviour
MaxDeliveries == 3     \* messages the broker hands to eachMessage
MaxClears == 1         \* administrative clear() calls while the consumer runs
MaxHandlers == 2       \* handleMessage invocations in flight at once
MaxRequests == 2       \* POST /events/generate requests in one behaviour
MaxTransmits == 2      \* times the client transmits the message of one send
MaxRewinds == 1        \* times the broker rewinds the consumer (redelivery)
MaxLifecycleCalls == 4 \* connect/startConsuming/disconnect calls on one service
MaxValidations == 2    \* direct validateEventPayload calls on one candidate
MaxMutations == 2      \* changes a caller makes to an array getAllEvents() returned
MaxQueries == 1        \* GET requests answered in one behaviour
MaxQueryDeliveries == 2
MaxOverlappingCalls == 2
MaxInterleavedCalls == 4 \* messages delivered while the queries are served

(***************************************************************************)
(* JavaScript values.  A value is a record [t, v, ref]: t is its typeof    *)
(* class, v its content (for an object: its JSON text), ref the heap       *)
(* identity of an object (0 for primitives).  Two objects are the same     *)
(* value only when they are the same reference; Set.prototype.has and      *)
(* Set.prototype.add compare with SameValueZero, which for the values      *)
(* here is equality of the whole record.                                   *)
(***************************************************************************)
Undefined == [t |-> "undefined", v |-> "", ref |-> 0]
Null == [t |-> "null", v |-> "", ref |-> 0]
Str(s) == [t |-> "string", v |-> s, ref |-> 0]
Num(s) == [t |-> "number", v |-> s, ref |-> 0]
Obj(json, r) == [t |-> "object", v |-> json, ref |-> r]
\* An array: its own kind of value, of which typeof says 'object'.
Arr(json, r) == [t |-> "array", v |-> json, ref |-> r]
Bool(b) == [t |-> "boolean", v |-> IF b THEN "true" ELSE "false", ref |-> 0]

\* ToBoolean: undefined, null, "", 0 and false are falsy; every object is truthy.
Truthy(x) ==
  CASE x.t = "undefined" -> FALSE
    [] x.t = "null" -> FALSE
    [] x.t = "string" -> x.v # ""
    [] x.t = "number" -> x.v # "0"
    [] x.t = "boolean" -> x.v = "true"
    [] OTHER -> TRUE

\* The value as it prints in JSON (an object's identity is not part of it).
JsonOf(x) == [t |-> x.t, v |-> x.v]

(***************************************************************************)
(* An event argument.  t = "object" is a plain object with the five        *)
(* fields (an absent field reads as Undefined); t = "null"/"undefined" is  *)
(* no object at all; t = "number" is a JSON scalar, on which every         *)
(* property reads as Undefined.                                            *)
(***************************************************************************)
EventObj(id, user, type, ts, pl) ==
  [t |-> "object", eventId |-> id, userId |-> user, eventType |-> type,
   timestamp |-> ts, payload |-> pl]
NullEvent == [t |-> "null", eventId |-> Undefined, userId |-> Undefined,
              eventType |-> Undefined, timestamp |-> Undefined, payload |-> Undefined]
UndefinedEvent == [NullEvent EXCEPT !.t = "undefined"]
ScalarEvent == [NullEvent EXCEPT !.t = "number"]

EventTruthy(e) == e.t \notin {"null", "undefined"}

VARIABLES
  events,              \* EventStore.events: the stored sequence
  processedEventIds,   \* EventStore.processedEventIds: the seen-id Set
  ret,                 \* the last direct call on the store and what it returned
  nCalls,              \* direct calls made so far
  handlers,            \* handleMessage invocations: where each one is suspended
  stdout,              \* the EVENT_CONSUMED lines written by console.log
  nextRef,             \* the next fresh object reference JSON.parse hands out
  nDeliveries,         \* messages handed to eachMessage so far
  last,                \* what the latest handleMessage invocation did before its await
  deliveredIds,        \* history: ids of the complete messages delivered since the last clear
  attempted,           \* history: eventIds passed to addEvent by the consumer since the last clear
  accepted,            \* history: eventIds for which that addEvent returned true, in order
  malformedSeen,       \* history: a malformed message has been delivered
  producerIsConnected, \* KafkaProducerService.isConnected
  consumerIsConnected, \* KafkaConsumerService.isConnected
  consumerIsRunning,   \* KafkaConsumerService.isRunning
  subscribed,          \* the broker client holds the topic subscription
  runnerStarted,       \* consumer.run has started the receive loop
  requests,            \* POST /events/generate requests and where each one is
  nextUuid,            \* how many ids uuidv4 has handed out
  topic,               \* the broker's log of each partition of the topic
  position,            \* per partition, the offset the consumer reads next
  nRewinds,            \* redeliveries so far
  acked,               \* history: published events in the order the sends resolved
  producerLast,        \* the latest connect()/disconnect() call on the producer and its outcome
  consumerLast,        \* the latest connect()/startConsuming()/disconnect() call on the consumer
  consumerPhase,       \* history: "fresh", "connected" once a connect() resolved, "disconnected" once a disconnect() did
  validations,         \* the validateEventPayload calls made directly: argument and result
  returned,            \* the array a caller has kept from getAllEvents(), and what it did to it
  reply,               \* the latest response to GET /health or GET /events/processed
  server,              \* the HTTP server: "none", "listening", or "closed" once server.close() was called
  shutdown,            \* gracefulShutdown: "none", the await it is at, or the exit code
  calls                \* consumer lifecycle calls made without awaiting the one before: where each is suspended

storeVars == <<events, processedEventIds>>
appVars == <<reply, server, shutdown, calls>>
clientVars == <<validations, appVars>>
callVars == <<ret, nCalls, clientVars, returned>>
consumerVars == <<handlers, stdout, nextRef, nDeliveries, last, malformedSeen>>
historyVars == <<deliveredIds, attempted, accepted>>
producerVars == <<producerIsConnected, requests, nextUuid, acked>>
brokerVars == <<topic, position, nRewinds>>
lifecycleVars == <<consumerIsConnected, consumerIsRunning, subscribed, runnerStarted>>
serviceVars == <<producerLast, consumerLast, consumerPhase>>
pipelineVars == <<producerVars, brokerVars, lifecycleVars, serviceVars>>
vars == <<events, processedEventIds, ret, nCalls, handlers, stdout, nextRef,
          nDeliveries, last, deliveredIds, attempted, accepted, malformedSeen,
          producerIsConnected, consumerIsConnected, consumerIsRunning, subscribed,
          runnerStarted, requests, nextUuid, topic, position, nRewinds, acked,
          producerLast, consumerLast, consumerPhase, validations, returned,
          reply, server, shutdown, calls>>

(***************************************************************************)
(* EventStore                                                              *)
(***************************************************************************)
\* addEvent with the duplicate check left out.
addEvent_NoDuplicateCheck(event) ==
  IF ~EventTruthy(event) \/ ~Truthy(event.eventId)
    THEN [value |-> FALSE, events |-> events, processedEventIds |-> processedEventIds]
    ELSE [value |-> TRUE,
          events |-> Append(events, event),
          processedEventIds |-> processedEventIds \cup {event.eventId}]

\* addEvent that overwrites the stored entry when the id was already seen.
addEvent_ReplacesDuplicate(event) ==
  IF ~EventTruthy(event) \/ ~Truthy(event.eventId)
    THEN [value |-> FALSE, events |-> events, processedEventIds |-> processedEventIds]
  ELSE IF event.eventId \in processedEventIds
    THEN [value |-> FALSE,
          events |-> [i \in 1..Len(events) |->
                        IF events[i].eventId = event.eventId THEN event ELSE events[i]],
          processedEventIds |-> processedEventIds]
    ELSE [value |-> TRUE,
          events |-> Append(events, event),
          processedEventIds |-> processedEventIds \cup {event.eventId}]

\* addEvent(event): the returned boolean and the store's two fields afterwards.
addEvent(event) ==
  IF ~EventTruthy(event) \/ ~Truthy(event.eventId)
    THEN [value |-> FALSE, events |-> events, processedEventIds |-> processedEventIds]
  ELSE IF event.eventId \in processedEventIds
    THEN [value |-> FALSE, events |-> events, processedEventIds |-> processedEventIds]
    ELSE [value |-> TRUE,
          events |-> Append(events, event),
          processedEventIds |-> processedEventIds \cup {event.eventId}]

getAllEvents == events
getEventCount == Len(events)
hasEvent(eventId) == eventId \in processedEventIds

\* clear() that empties the sequence and forgets to clear the Set.
clear_KeepsIds == [events |-> <<>>, processedEventIds |-> processedEventIds]

\* clear(): both fields afterwards.
clear == [events |-> <<>>, processedEventIds |-> {}]

(***************************************************************************)
(* Values the callers and the broker draw from.                            *)
(***************************************************************************)
UserIds == {"u1", "u2"}
EventTypes == {"LOGIN", "LOGOUT"}
\* Identifiers: two strings, and an array-valued identifier (JSON text ["x"]).
ArrayIdJson == "[x]"
CallerRefs == {1, 2}     \* two distinct array objects a caller may hold
EventIdArgs ==
  {Undefined, Str(""), Str("e1"), Str("e2")} \cup {Obj(ArrayIdJson, r) : r \in CallerRefs}

\* Arguments of direct addEvent calls: absent, null, a scalar, and objects
\* with every identifier above; "e1" comes with two different bodies.
StoreCandidates ==
  {NullEvent, UndefinedEvent, ScalarEvent}
    \cup {EventObj(id, Str("u1"), Str("LOGIN"), Str("t1"), Obj("{}", 0)) : id \in EventIdArgs}
    \cup {EventObj(Str("e1"), Str("u2"), Str("LOGOUT"), Str("t2"), Obj("{}", 0))}

\* `[...this.events]`: a new array whose elements are the store's own event
\* objects.  An element is the object in slot `slot` of this.events (0 once
\* this.events has been replaced by clear(), or for an object the caller
\* made) together with the object's fields.
SpreadOf(seq) == [i \in 1..Len(seq) |-> [slot |-> i, obj |-> seq[i]]]

NothingReturned == [held |-> FALSE, items |-> <<>>, n |-> 0]

\* `this.events = []` in clear(): the objects of the old array are no longer
\* the store's.
Detached(array) ==
  [array EXCEPT !.items = [i \in 1..Len(array.items) |->
                             [array.items[i] EXCEPT !.slot = 0]]]

NoRet == [op |-> "none", event |-> NullEvent, id |-> Undefined,
          bool |-> FALSE, num |-> 0, seq |-> <<>>]

(***************************************************************************)
(* Direct calls on the store (tests, controllers, administrative reset).   *)
(***************************************************************************)
CallAddEvent(e) ==
  /\ nCalls < MaxCalls
  /\ LET r == addEvent(e) IN
       /\ events' = r.events
       /\ processedEventIds' = r.processedEventIds
       /\ ret' = [NoRet EXCEPT !.op = "addEvent", !.event = e, !.bool = r.value]
  /\ nCalls' = nCalls + 1
  /\ UNCHANGED <<clientVars, returned, consumerVars, historyVars, pipelineVars>>

CallGetAllEvents ==
  /\ nCalls < MaxCalls
  /\ ret' = [NoRet EXCEPT !.op = "getAllEvents", !.seq = getAllEvents]
  /\ nCalls' = nCalls + 1
  /\ UNCHANGED <<storeVars, clientVars, returned, consumerVars, historyVars, pipelineVars>>

CallGetEventCount ==
  /\ nCalls < MaxCalls
  /\ ret' = [NoRet EXCEPT !.op = "getEventCount", !.num = getEventCount]
  /\ nCalls' = nCalls + 1
  /\ UNCHANGED <<storeVars, clientVars, returned, consumerVars, historyVars, pipelineVars>>

CallHasEvent(id) ==
  /\ nCalls < MaxCalls
  /\ ret' = [NoRet EXCEPT !.op = "hasEvent", !.id = id, !.bool = hasEvent(id)]
  /\ nCalls' = nCalls + 1
  /\ UNCHANGED <<storeVars, clientVars, returned, consumerVars, historyVars, pipelineVars>>

\* clear(); the histories "since the last clear" start again.
CallClear ==
  /\ nCalls < MaxCalls
  /\ events' = clear.events
  /\ processedEventIds' = clear.processedEventIds
  /\ ret' = [NoRet EXCEPT !.op = "clear"]
  /\ nCalls' = nCalls + 1
  /\ deliveredIds' = {}
  /\ attempted' = {}
  /\ accepted' = <<>>
  /\ returned' = Detached(returned)
  /\ UNCHANGED <<clientVars, consumerVars, pipelineVars>>

(***************************************************************************)
(* Kafka messages.  message.value is a Buffer or null; a Buffer is modelled *)
(* by the JSON document its text holds: doc = "none" is a null value,      *)
(* "invalid" is text that is not JSON, "null" and "number" are the JSON    *)
(* documents null and 42, "object" is a JSON object with the fields given  *)
(* (a field of type "undefined" is absent from the text).  JSON text holds *)
(* no references: its values are [t, v].                                   *)
(***************************************************************************)
NoField == JsonOf(Undefined)
JStr(s) == JsonOf(Str(s))
JArrayId == [t |-> "object", v |-> ArrayIdJson]
JEmptyObject == [t |-> "object", v |-> "{}"]

Buffer(doc, id, user, type, ts, pl) ==
  [doc |-> doc, eventId |-> id, userId |-> user, eventType |-> type,
   timestamp |-> ts, payload |-> pl]
BufferOf(doc) == Buffer(doc, NoField, NoField, NoField, NoField, NoField)
JsonEvent(id, user, type) == Buffer("object", id, user, type, JStr("t1"), JEmptyObject)

Message(key, value) == [key |-> key, value |-> value]

\* Messages a broker may hold: what this service publishes looks like the
\* complete ones with string ids; any other producer of the topic may have
\* written the rest.
CompleteMessages ==
  {Message(JStr("u1"), JsonEvent(JStr("e1"), JStr("u1"), JStr("LOGIN"))),
   Message(JStr("u2"), JsonEvent(JStr("e1"), JStr("u2"), JStr("LOGOUT"))),
   Message(JStr("u1"), JsonEvent(JStr("e2"), JStr("u1"), JStr("LOGIN"))),
   Message(JStr("u1"), JsonEvent(JArrayId, JStr("u1"), JStr("LOGIN")))}
IncompleteMessages ==
  {Message(JStr("u1"), JsonEvent(NoField, JStr("u1"), JStr("LOGIN"))),
   Message(JStr("u1"), JsonEvent(JStr("e1"), NoField, JStr("LOGIN"))),
   Message(JStr("u1"), JsonEvent(JStr("e1"), JStr("u1"), NoField)),
   Message(JStr("u1"), BufferOf("number"))}
UnreadableMessages ==
  {Message(JStr("u1"), BufferOf("none")),
   Message(JStr("u1"), BufferOf("invalid")),
   Message(JStr("u1"), BufferOf("null"))}
Messages == CompleteMessages \cup IncompleteMessages \cup UnreadableMessages

(***************************************************************************)
(* JSON.parse                                                              *)
(***************************************************************************)
\* A parsed value: objects and arrays are new objects, with reference r.
Alloc(j, r) ==
  IF j.t \in {"object", "array"}
    THEN [t |-> j.t, v |-> j.v, ref |-> r] ELSE [t |-> j.t, v |-> j.v, ref |-> 0]

\* JSON.parse(text) for a text that parses; r is the first unused reference.
JSONparse(text, r) ==
  CASE text.doc = "null" -> NullEvent
    [] text.doc = "number" -> ScalarEvent
    [] OTHER -> EventObj(Alloc(text.eventId, r), Alloc(text.userId, r + 1),
                         Alloc(text.eventType, r + 2), Alloc(text.timestamp, r + 3),
                         Alloc(text.payload, r + 4))

(***************************************************************************)
(* KafkaConsumerService.processEvent and handleMessage                     *)
(***************************************************************************)
\* The line console.log writes (its timestamp, the wall clock, is left out).
ConsumedRecord(event) ==
  [action |-> "EVENT_CONSUMED", eventId |-> JsonOf(event.eventId),
   userId |-> JsonOf(event.userId), eventType |-> JsonOf(event.eventType)]

\* processEvent whose structural check forgets userId.
processEvent_NoUserIdCheck(event) ==
  IF ~Truthy(event.eventId) \/ ~Truthy(event.eventType)
    THEN [value |-> FALSE, out |-> <<>>, addCalled |-> FALSE,
          events |-> events, processedEventIds |-> processedEventIds]
    ELSE LET r == addEvent(event) IN
         [value |-> r.value, out |-> <<ConsumedRecord(event)>>, addCalled |-> TRUE,
          events |-> r.events, processedEventIds |-> r.processedEventIds]

\* processEvent(event) for a non-null event.  It has no await: it runs to its
\* return in the caller's turn.  Nothing in its try block throws for a parsed
\* value, so the catch block (lines 236-242) is never entered.
\* value: the boolean it resolves to; out: the lines written to stdout;
\* addCalled: whether eventStore.addEvent was called; arg: its argument.
processEvent(event) ==
  IF ~Truthy(event.eventId) \/ ~Truthy(event.userId) \/ ~Truthy(event.eventType)
    THEN [value |-> FALSE, out |-> <<>>, addCalled |-> FALSE,
          events |-> events, processedEventIds |-> processedEventIds]
    ELSE LET r == addEvent(event) IN
         [value |-> r.value, out |-> <<ConsumedRecord(event)>>, addCalled |-> TRUE,
          events |-> r.events, processedEventIds |-> r.processedEventIds]

\* The catch block with message.value.toString() in place of
\* message.value?.toString(): it throws for a message without a value.
handleMessageCatch_NoOptionalChaining(message) ==
  IF message.value.doc = "none" THEN "rejected" ELSE "resolved"

\* The catch block of handleMessage: it logs message.offset and
\* message.value?.toString().substring(0, 100), which throw for no message,
\* so the invocation resolves.
handleMessageCatch(message) == "resolved"

\* handleMessage(topic, partition, message) from its call to its first
\* suspension: the await of processEvent, or its end when the try block threw
\* (toString of a null value, JSON.parse of bad text, event.eventId of null).
handleMessage(message, r) ==
  IF message.value.doc \in {"none", "invalid", "null"}
    THEN [pc |-> "idle", outcome |-> handleMessageCatch(message), entered |-> FALSE,
          value |-> FALSE, out |-> <<>>, addCalled |-> FALSE, event |-> NullEvent,
          events |-> events, processedEventIds |-> processedEventIds]
    ELSE LET event == JSONparse(message.value, r)
             p == processEvent(event)
         IN [pc |-> "awaitProcessEvent", outcome |-> "pending", entered |-> TRUE,
             value |-> p.value, out |-> p.out, addCalled |-> p.addCalled, event |-> event,
             events |-> p.events, processedEventIds |-> p.processedEventIds]

\* The claim's "structurally complete message": a JSON object that carries
\* eventId, userId and eventType (as the consumer reads them: truthy).
Complete(message) ==
  /\ message.value.doc = "object"
  /\ \A f \in {"eventId", "userId", "eventType"} :
       Truthy([t |-> message.value[f].t, v |-> message.value[f].v, ref |-> 0])

(***************************************************************************)
(* The topic and the HTTP requests.                                        *)
(***************************************************************************)
NumPartitions == 2
Partitions == 1..NumPartitions
\* The client's partitioner: a function of the message key alone.
Partition(key) == IF key = JStr("u1") THEN 1 ELSE 2

RequestIds == 1..MaxRequests
\* The body of a response that carries no eventId and no timestamp.
NoResponse == [eventId |-> Undefined, timestamp |-> Undefined]
\* A request: where its handler is, the event it built, the publishEvent call
\* it made (how many, the connected flag at the call, the error producer.send
\* rejected with, the error publishEvent threw to the handler)
\* and the response (status, details of a 400, body of a 201).
NoRequest == [pc |-> "new", body |-> NullEvent, event |-> NullEvent,
              transmits |-> 0, offset |-> 0, ackedAtStart |-> 0, status |-> 0,
              publishCalls |-> 0, connected |-> FALSE, sendError |-> "", error |-> "",
              details |-> <<>>, response |-> NoResponse]

\* The response to a query, before any was answered.
NoReply == [n |-> 0, route |-> "none", status |-> 0, producer |-> "",
            processedEvents |-> 0, count |-> 0, events |-> <<>>]

\* No lifecycle call on the consumer is in flight and none has been made.
NoCalls == [at |-> [c \in 1..MaxOverlappingCalls |-> "idle"], n |-> 0]

\* A lifecycle call on a service: the n-th call, which method, how it ended
\* and the message of the error it threw.
NoCall == [n |-> 0, op |-> "none", outcome |-> "none", error |-> ""]
Call(previous, op, outcome, error) ==
  [n |-> previous.n + 1, op |-> op, outcome |-> outcome, error |-> error]

Handlers == 1..MaxHandlers
IdleHandler == [pc |-> "idle", outcome |-> "none", addCalled |-> FALSE,
                wasAdded |-> FALSE, eventId |-> Undefined]
NoDelivery == [n |-> 0, message |-> Message(NoField, BufferOf("none")), entered |-> FALSE,
               addCalled |-> FALSE, wasAdded |-> FALSE, emitted |-> 0, outcome |-> "none"]

Init ==
  /\ events = <<>>
  /\ processedEventIds = {}
  /\ ret = NoRet
  /\ nCalls = 0
  /\ handlers = [h \in Handlers |-> IdleHandler]
  /\ stdout = <<>>
  /\ nextRef = Cardinality(CallerRefs) + 1
  /\ nDeliveries = 0
  /\ last = NoDelivery
  /\ deliveredIds = {}
  /\ attempted = {}
  /\ accepted = <<>>
  /\ malformedSeen = FALSE
  /\ producerIsConnected = FALSE
  /\ consumerIsConnected = FALSE
  /\ consumerIsRunning = FALSE
  /\ subscribed = FALSE
  /\ runnerStarted = FALSE
  /\ requests = [r \in RequestIds |-> NoRequest]
  /\ nextUuid = 0
  /\ topic = [p \in Partitions |-> <<>>]
  /\ position = [p \in Partitions |-> 0]
  /\ nRewinds = 0
  /\ acked = <<>>
  /\ producerLast = NoCall
  /\ consumerLast = NoCall
  /\ consumerPhase = "fresh"
  /\ validations = <<>>
  /\ returned = NothingReturned
  /\ reply = NoReply
  /\ server = "none"
  /\ shutdown = "none"
  /\ calls = NoCalls

\* The receive loop is alive: no eachMessage invocation has rejected.
LoopAlive == \A h \in Handlers : handlers[h].outcome # "rejected"

\* The broker hands message m to eachMessage, which calls handleMessage; the
\* invocation runs to its first suspension.  h is the slot that holds it: the
\* first free one (the slots are interchangeable).
Deliver(h, m) ==
  /\ LoopAlive
  /\ handlers[h].pc = "idle"
  /\ \A k \in Handlers : k < h => handlers[k].pc # "idle"
  /\ \E r \in {handleMessage(m, nextRef)} :
       /\ events' = r.events
       /\ processedEventIds' = r.processedEventIds
       /\ stdout' = stdout \o r.out
       /\ handlers' = [handlers EXCEPT ![h] =
                         IF r.entered
                           THEN [pc |-> r.pc, outcome |-> r.outcome,
                                 addCalled |-> r.addCalled, wasAdded |-> r.value,
                                 eventId |-> r.event.eventId]
                           ELSE [IdleHandler EXCEPT !.outcome = r.outcome]]
       /\ nextRef' = IF r.entered /\ r.event.t = "object" THEN nextRef + 5 ELSE nextRef
       /\ last' = [n |-> nDeliveries + 1, message |-> m, entered |-> r.entered,
                   addCalled |-> r.addCalled, wasAdded |-> r.value,
                   emitted |-> Len(r.out), outcome |-> r.outcome]
       /\ attempted' = IF r.addCalled THEN attempted \cup {r.event.eventId} ELSE attempted
       /\ accepted' = IF r.value THEN Append(accepted, r.event.eventId) ELSE accepted
  /\ nDeliveries' = nDeliveries + 1
  /\ deliveredIds' = IF Complete(m) THEN deliveredIds \cup {m.value.eventId} ELSE deliveredIds
  /\ malformedSeen' = (malformedSeen \/ ~Complete(m))
  /\ UNCHANGED callVars

\* The await of processEvent resumes: `if (wasAdded) logger.info(...)`, and
\* the invocation resolves.
Resume(h) ==
  /\ handlers[h].pc = "awaitProcessEvent"
  /\ handlers' = [handlers EXCEPT ![h] = [IdleHandler EXCEPT !.outcome = "resolved"]]
  /\ UNCHANGED <<storeVars, callVars, stdout, nextRef, nDeliveries, last,
                 historyVars, malformedSeen>>

\* Any sequence of deliveries: the broker hands over any message at any time.
DeliverAny(h, m) ==
  /\ nDeliveries < MaxDeliveries
  /\ Deliver(h, m)
  /\ UNCHANGED pipelineVars

ResumeAny(h) == Resume(h) /\ UNCHANGED pipelineVars

\* An administrative clear() while messages are being consumed.
ClearAny == nCalls < MaxClears /\ CallClear

NextConsumer ==
  \/ \E h \in Handlers, m \in Messages : DeliverAny(h, m)
  \/ \E h \in Handlers : ResumeAny(h)
  \/ ClearAny

SpecConsumer == Init /\ [][NextConsumer]_vars

NextStore ==
  \/ \E e \in StoreCandidates : CallAddEvent(e)
  \/ CallGetAllEvents
  \/ CallGetEventCount
  \/ \E id \in EventIdArgs : CallHasEvent(id)
  \/ CallClear

SpecStore == Init /\ [][NextStore]_vars

(***************************************************************************)
(* A caller that keeps the array getAllEvents() returned and changes it.   *)
(***************************************************************************)
\* const all = eventStore.getAllEvents()
KeepAllEvents ==
  /\ nCalls < MaxCalls
  /\ ret' = [NoRet EXCEPT !.op = "getAllEvents", !.seq = getAllEvents]
  /\ nCalls' = nCalls + 1
  /\ returned' = [held |-> TRUE, items |-> SpreadOf(getAllEvents), n |-> 0]
  /\ UNCHANGED <<storeVars, clientVars, consumerVars, historyVars, pipelineVars>>

\* What a caller writes into a field of a returned event.
FieldEdits == {<<"userId", Str("mallory")>>, <<"eventId", Str("e9")>>}

\* all.push(e)
CallerPush(e) ==
  /\ returned.held /\ returned.n < MaxMutations
  /\ returned' = [returned EXCEPT !.items = Append(@, [slot |-> 0, obj |-> e]),
                                  !.n = @ + 1]
  /\ UNCHANGED <<storeVars, ret, nCalls, clientVars, consumerVars, historyVars,
                 pipelineVars>>

\* all.pop()
CallerPop ==
  /\ returned.held /\ returned.n < MaxMutations
  /\ returned.items # <<>>
  /\ returned' = [returned EXCEPT !.items = SubSeq(@, 1, Len(@) - 1), !.n = @ + 1]
  /\ UNCHANGED <<storeVars, ret, nCalls, clientVars, consumerVars, historyVars,
                 pipelineVars>>

\* all.reverse()
CallerReverse ==
  /\ returned.held /\ returned.n < MaxMutations
  /\ returned' = [returned EXCEPT
                    !.items = [i \in 1..Len(@) |-> @[Len(@) + 1 - i]],
                    !.n = @ + 1]
  /\ UNCHANGED <<storeVars, ret, nCalls, clientVars, consumerVars, historyVars,
                 pipelineVars>>

\* all[i][field] = value: the write goes to the object, which is the store's
\* own while this.events still holds it.
CallerSetField(i, field, value) ==
  /\ returned.held /\ returned.n < MaxMutations
  /\ i \in 1..Len(returned.items)
  /\ LET slot == returned.items[i].slot IN
       /\ returned' = [returned EXCEPT
                         !.items = [k \in 1..Len(@) |->
                                      IF k = i \/ (slot # 0 /\ @[k].slot = slot)
                                        THEN [@[k] EXCEPT !.obj[field] = value]
                                        ELSE @[k]],
                         !.n = @ + 1]
       /\ events' = IF slot = 0 THEN events
                    ELSE [events EXCEPT ![slot][field] = value]
  /\ UNCHANGED <<processedEventIds, ret, nCalls, clientVars, consumerVars, historyVars,
                 pipelineVars>>

NextStoreCaller ==
  \/ NextStore
  \/ KeepAllEvents
  \/ \E e \in StoreCandidates : CallerPush(e)
  \/ CallerPop
  \/ CallerReverse
  \/ \E i \in 1..MaxCalls, edit \in FieldEdits : CallerSetField(i, edit[1], edit[2])

SpecStoreCaller == Init /\ [][NextStoreCaller]_vars

(***************************************************************************)
(* validateEventPayload (src/src/utils/validator.js)                       *)
(***************************************************************************)
VALID_EVENT_TYPES == <<"LOGIN", "LOGOUT", "PRODUCT_VIEW">>
\* typeof: 'object' for null and for arrays as well.
TypeOf(x) == IF x.t \in {"null", "array"} THEN "object" ELSE x.t
Includes(seq, x) == \E i \in 1..Len(seq) : seq[i] = x

\* A validator that does not compare eventType with the enumeration.
validateEventPayload_NoEnumeration(event) ==
  LET userIdErrors ==
        IF ~Truthy(event.userId) \/ TypeOf(event.userId) # "string"
          THEN <<"userId is required and must be a string">> ELSE <<>>
      eventTypeErrors ==
        IF ~Truthy(event.eventType) \/ TypeOf(event.eventType) # "string"
          THEN <<"eventType is required and must be a string">> ELSE <<>>
      payloadErrors ==
        IF event.payload # Undefined /\ TypeOf(event.payload) # "object"
          THEN <<"payload must be an object">> ELSE <<>>
      errors == userIdErrors \o eventTypeErrors \o payloadErrors
  IN IF ~EventTruthy(event)
       THEN [valid |-> FALSE, errors |-> <<"Event payload is required">>]
       ELSE [valid |-> Len(errors) = 0, errors |-> errors]

\* A validator that stops at the first rule that fails.
validateEventPayload_FirstErrorOnly(event) ==
  LET userIdErrors ==
        IF ~Truthy(event.userId) \/ TypeOf(event.userId) # "string"
          THEN <<"userId is required and must be a string">> ELSE <<>>
      eventTypeErrors ==
        IF ~Truthy(event.eventType) \/ TypeOf(event.eventType) # "string"
          THEN <<"eventType is required and must be a string">>
        ELSE IF ~Includes(VALID_EVENT_TYPES, event.eventType.v)
          THEN <<"eventType must be one of: LOGIN, LOGOUT, PRODUCT_VIEW">> ELSE <<>>
      payloadErrors ==
        IF event.payload # Undefined /\ TypeOf(event.payload) # "object"
          THEN <<"payload must be an object">> ELSE <<>>
      errors == userIdErrors \o eventTypeErrors \o payloadErrors
  IN IF ~EventTruthy(event)
       THEN [valid |-> FALSE, errors |-> <<"Event payload is required">>]
       ELSE [valid |-> Len(errors) = 0,
             errors |-> IF Len(errors) = 0 THEN errors ELSE <<errors[1]>>]

\* validateEventPayload(event): `if (!event)` returns the single error at
\* once; the three field rules are then evaluated one after the other and
\* every failure is pushed onto the list.
validateEventPayload(event) ==
  LET userIdErrors ==
        IF ~Truthy(event.userId) \/ TypeOf(event.userId) # "string"
          THEN <<"userId is required and must be a string">> ELSE <<>>
      eventTypeErrors ==
        IF ~Truthy(event.eventType) \/ TypeOf(event.eventType) # "string"
          THEN <<"eventType is required and must be a string">>
        ELSE IF ~Includes(VALID_EVENT_TYPES, event.eventType.v)
          THEN <<"eventType must be one of: LOGIN, LOGOUT, PRODUCT_VIEW">> ELSE <<>>
      payloadErrors ==
        IF event.payload # Undefined /\ TypeOf(event.payload) # "object"
          THEN <<"payload must be an object">> ELSE <<>>
      errors == userIdErrors \o eventTypeErrors \o payloadErrors
  IN IF ~EventTruthy(event)
       THEN [valid |-> FALSE, errors |-> <<"Event payload is required">>]
       ELSE [valid |-> Len(errors) = 0, errors |-> errors]

(***************************************************************************)
(* KafkaProducerService and generateEvent                                  *)
(***************************************************************************)
\* Request bodies {userId, eventType, payload}.
Body(user, type, pl) == [NullEvent EXCEPT !.t = "object", !.userId = user,
                                          !.eventType = type, !.payload = pl]
Bodies ==
  {Body(Str("u1"), Str("LOGIN"), Undefined),
   Body(Str("u1"), Str("LOGOUT"), Null),
   Body(Str("u2"), Str("LOGIN"), Obj("{k}", 0)),
   Body(Str("u1"), Str("BOGUS"), Undefined),
   Body(Undefined, Str("LOGIN"), Str("x"))}

\* Arguments of direct validateEventPayload calls: no candidate at all, and
\* objects with every combination of the field values below.
UserIdValues == {Undefined, Null, Str(""), Str("u1"), Num("123"), Obj("{}", 0)}
EventTypeValues ==
  {Undefined, Str(""), Str("LOGIN"), Str("LOGOUT"), Str("PRODUCT_VIEW"), Str("BOGUS"),
   Num("1")}
PayloadValues ==
  {Undefined, Null, Obj("{k}", 0), Arr("[1]", 0), Str("x"), Str(""), Num("0"), Num("7"),
   Bool(TRUE), Bool(FALSE)}
Candidates ==
  {NullEvent, UndefinedEvent}
    \cup {Body(u, t, pl) : u \in UserIdValues, t \in EventTypeValues, pl \in PayloadValues}

\* A caller validates a candidate.
CallValidate(c) ==
  /\ validations = <<>>
  /\ validations' = <<[candidate |-> c, result |-> validateEventPayload(c)]>>
  /\ UNCHANGED <<storeVars, ret, nCalls, returned, appVars, consumerVars, historyVars,
                 pipelineVars>>

\* The caller validates the same candidate once more.
CallValidateAgain ==
  /\ validations # <<>>
  /\ Len(validations) < MaxValidations
  /\ validations' = Append(validations,
                           [candidate |-> validations[1].candidate,
                            result |-> validateEventPayload(validations[1].candidate)])
  /\ UNCHANGED <<storeVars, ret, nCalls, returned, appVars, consumerVars, historyVars,
                 pipelineVars>>

NextValidator ==
  \/ \E c \in Candidates : CallValidate(c)
  \/ CallValidateAgain

SpecValidator == Init /\ [][NextValidator]_vars

\* `payload || {}`
DefaultPayload_AlwaysEmpty(payload) == Obj("{}", 0)

DefaultPayload(payload) == IF Truthy(payload) THEN payload ELSE Obj("{}", 0)

\* The identifiers uuidv4() hands out, in order; no two are equal.
Uuids == <<"e1", "e2", "e3", "e4">>

\* An identifier that does not change from call to call.
uuidv4_Fixed(n) == Str(Uuids[1])

\* uuidv4(): the identifier handed out after n earlier ones.
uuidv4(n) == Str(Uuids[n + 1])
\* new Date().toISOString()
Timestamps == {"t1"}

\* A serialization that leaves the payload out.
JSONstringify_WithoutPayload(event) ==
  Buffer("object", JsonOf(event.eventId), JsonOf(event.userId), JsonOf(event.eventType),
         JsonOf(event.timestamp), NoField)

\* JSON.stringify(event): fields that are undefined are left out, and no
\* reference survives in the text.
JSONstringify(event) ==
  Buffer("object", JsonOf(event.eventId), JsonOf(event.userId), JsonOf(event.eventType),
         JsonOf(event.timestamp), JsonOf(event.payload))

\* The headers of a message.
Headers(eventType, timestamp) == [eventType |-> eventType, timestamp |-> timestamp]

\* A message keyed by the eventId instead of the userId.
BuildMessage_KeyedByEventId(event) ==
  [key |-> JsonOf(event.eventId), value |-> JSONstringify(event),
   headers |-> Headers(JsonOf(event.eventType), JsonOf(event.timestamp))]

\* The message publishEvent builds: key, value and the two headers (which
\* the consumer does not read).
BuildMessage(event) ==
  [key |-> JsonOf(event.userId), value |-> JSONstringify(event),
   headers |-> Headers(JsonOf(event.eventType), JsonOf(event.timestamp))]

\* config.kafka.topic
ConfiguredTopic == "user-activity-events"

\* A send that carries the message twice.
SendArguments_Twice(event) ==
  [topic |-> ConfiguredTopic, messages |-> <<BuildMessage(event), BuildMessage(event)>>]

\* The argument of producer.send: the topic and the list of messages.
SendArguments(event) == [topic |-> ConfiguredTopic, messages |-> <<BuildMessage(event)>>]

\* The message of the error publishEvent throws when isConnected is false.
NotConnectedError == "Producer is not connected to Kafka"

\* Errors a failed producer.send may reject with: one whose message contains
\* the words 'not connected', one whose message does not.
BrokerErrors == {"The broker is not connected", "Request timed out"}
MentionsNotConnected(error) ==
  error \in {NotConnectedError, "The broker is not connected"}

\* The catch block of publishEvent: it logs and rethrows the error it caught.
publishEventCatch_Wraps(error) == "Failed to publish event to Kafka"

publishEventCatch(error) == error

\* The catch block of generateEvent: the status it answers with.
ErrorStatus(error) == IF MentionsNotConnected(error) THEN 503 ELSE 500

\* An error the broker client rejects a lifecycle call with.
ClientErrors == {"Connection timeout"}

\* A connect() that sets the flag before it awaits the client.
producerConnect_SetsFlagFirst(isConnected, outcome) == TRUE

\* KafkaProducerService.connect(): the flag after the call, given how
\* `await this.producer.connect()` ended.
producerConnect(isConnected, outcome) ==
  IF outcome = "resolved" THEN TRUE ELSE isConnected

\* A disconnect() that never clears the flag.
producerDisconnect_KeepsFlag(isConnected, outcome) == isConnected

\* KafkaProducerService.disconnect(): the flag after the call, given how
\* `await this.producer.disconnect()` ended.
producerDisconnect(isConnected, outcome) ==
  IF outcome = "resolved" THEN FALSE ELSE isConnected

\* KafkaProducerService.connect(), when the broker accepts the connection.
ProducerConnect ==
  /\ ~producerIsConnected
  /\ producerIsConnected' = producerConnect(producerIsConnected, "resolved")
  /\ producerLast' = Call(producerLast, "connect", "resolved", "")
  /\ UNCHANGED <<requests, nextUuid, acked, brokerVars, lifecycleVars, storeVars,
                 consumerLast, consumerPhase,
                 callVars, consumerVars, historyVars>>

\* POST /events/generate with the given body, from its arrival to its first
\* suspension: validation (400), construction of the event, publishEvent up
\* to `await this.producer.send` (503 when the producer is not connected).
GenerateEvent(r, body, ts) ==
  /\ requests[r].pc \in {"new", "accepted"}
  /\ \A k \in RequestIds : k < r => requests[k].pc # "new"
  /\ LET validation == validateEventPayload(body)
         event == EventObj(uuidv4(nextUuid), body.userId, body.eventType, Str(ts),
                           DefaultPayload(body.payload))
     IN IF ~validation.valid
          THEN /\ requests' = [requests EXCEPT ![r] =
                                 [NoRequest EXCEPT !.pc = "done", !.body = body, !.status = 400,
                                                   !.details = validation.errors]]
               /\ UNCHANGED nextUuid
        ELSE IF ~producerIsConnected
          THEN /\ requests' = [requests EXCEPT ![r] =
                                 [NoRequest EXCEPT !.pc = "done", !.body = body, !.event = event,
                                    !.publishCalls = 1, !.connected = FALSE,
                                    !.error = NotConnectedError,
                                    !.status = ErrorStatus(NotConnectedError)]]
               /\ nextUuid' = nextUuid + 1
          ELSE /\ requests' = [requests EXCEPT ![r] =
                                 [NoRequest EXCEPT !.pc = "awaitSend", !.body = body,
                                                   !.event = event,
                                                   !.publishCalls = 1, !.connected = TRUE,
                                                   !.ackedAtStart = Len(acked)]]
               /\ nextUuid' = nextUuid + 1
  /\ UNCHANGED <<producerIsConnected, acked, brokerVars, lifecycleVars, serviceVars,
                 storeVars, callVars, consumerVars, historyVars>>

\* While producer.send is pending, the client transmits the message (the
\* first time, and again when the response to the previous transmission is
\* lost or late: the client is configured with retries and the producer is
\* not idempotent); the broker appends every transmission it receives to the
\* partition of the key.  offset is the place of the latest transmission.
Transmit(r) ==
  /\ requests[r].pc = "awaitSend"
  /\ requests[r].transmits < MaxTransmits
  /\ LET send == SendArguments(requests[r].event)
         p == Partition(send.messages[1].key)
     IN /\ send.topic = ConfiguredTopic
        /\ topic' = [topic EXCEPT ![p] = @ \o send.messages]
        /\ requests' = [requests EXCEPT ![r].transmits = @ + 1,
                                         ![r].offset = Len(topic'[p])]
  /\ UNCHANGED <<producerIsConnected, nextUuid, acked, position, nRewinds, lifecycleVars,
                 serviceVars,
                 storeVars, callVars, consumerVars, historyVars>>

\* The body of the 201 response (its message text apart).
Created(event) == [eventId |-> event.eventId, timestamp |-> event.timestamp]

\* Request k waits for the response to a transmission the broker appended to
\* the same partition before the latest transmission of request r: the
\* responses of one partition leader arrive in the order of its appends.
Outstanding(k, r) ==
  /\ requests[k].pc = "awaitSend"
  /\ requests[k].transmits > 0
  /\ Partition(requests[k].event.userId) = Partition(requests[r].event.userId)
  /\ requests[k].offset < requests[r].offset

\* A handler that, once the send is acknowledged, also puts the event into
\* the store itself.
SendResolves_StoresEvent(r) ==
  /\ requests[r].pc = "awaitSend"
  /\ requests[r].transmits > 0
  /\ \A k \in RequestIds \ {r} : ~Outstanding(k, r)
  /\ requests' = [requests EXCEPT ![r].pc = "done", ![r].status = 201,
                                   ![r].transmits = 0, ![r].offset = 0,
                                   ![r].response = Created(requests[r].event)]
  /\ acked' = Append(acked, [eventId |-> requests[r].event.eventId,
                             userId |-> requests[r].event.userId,
                             ackedAtStart |-> requests[r].ackedAtStart,
                             beforeSubscribe |-> ~subscribed])
  /\ events' = addEvent(requests[r].event).events
  /\ processedEventIds' = addEvent(requests[r].event).processedEventIds
  /\ UNCHANGED <<producerIsConnected, nextUuid, brokerVars, lifecycleVars, serviceVars,
                 callVars, consumerVars, historyVars>>

\* The broker's acknowledgement of a transmission arrives: producer.send
\* resolves, publishEvent returns the metadata and generateEvent answers 201.
SendResolves(r) ==
  /\ requests[r].pc = "awaitSend"
  /\ requests[r].transmits > 0
  /\ \A k \in RequestIds \ {r} : ~Outstanding(k, r)
  /\ requests' = [requests EXCEPT ![r].pc = "done", ![r].status = 201,
                                   ![r].transmits = 0, ![r].offset = 0,
                                   ![r].response = Created(requests[r].event)]
  /\ acked' = Append(acked, [eventId |-> requests[r].event.eventId,
                             userId |-> requests[r].event.userId,
                             ackedAtStart |-> requests[r].ackedAtStart,
                             beforeSubscribe |-> ~subscribed])
  /\ UNCHANGED <<producerIsConnected, nextUuid, brokerVars, lifecycleVars, serviceVars,
                 storeVars,
                 callVars, consumerVars, historyVars>>

\* producer.send rejects: publishEvent rethrows, generateEvent answers from
\* its catch block.
SendRejects(r, error) ==
  /\ requests[r].pc = "awaitSend"
  /\ requests' = [requests EXCEPT ![r].pc = "done",
                                   ![r].status = ErrorStatus(publishEventCatch(error)),
                                   ![r].sendError = error,
                                   ![r].error = publishEventCatch(error),
                                   ![r].transmits = 0, ![r].offset = 0]
  /\ UNCHANGED <<producerIsConnected, nextUuid, acked, brokerVars, lifecycleVars,
                 serviceVars,
                 storeVars, callVars, consumerVars, historyVars>>

(***************************************************************************)
(* KafkaConsumerService.connect / startConsuming and the broker's          *)
(* deliveries (the successful path of the lifecycle).                      *)
(***************************************************************************)
\* Where a subscription with fromBeginning: false would start reading.
SubscribeOffset_FromLatest(p) == Len(topic[p])

\* Where the subscription starts reading partition p: fromBeginning: true.
SubscribeOffset(p) == 0

\* The message of the error startConsuming throws when isConnected is false.
ConsumerNotConnectedError == "Consumer is not connected to Kafka"

\* KafkaConsumerService.connect(): the flag after the call, given how
\* `await this.consumer.connect()` ended; the flag is set before
\* consumer.subscribe is awaited.
consumerConnect(isConnected, connectOutcome) ==
  IF connectOutcome = "resolved" THEN TRUE ELSE isConnected

\* A startConsuming that sets isRunning before it looks at isConnected.
startConsuming_SetsRunningFirst(isConnected, isRunning, runOutcome) ==
  IF ~isConnected
    THEN [outcome |-> "rejected", error |-> ConsumerNotConnectedError,
          isRunning |-> TRUE, runCalled |-> FALSE]
    ELSE [outcome |-> runOutcome.outcome, error |-> runOutcome.error,
          isRunning |-> TRUE, runCalled |-> TRUE]

\* KafkaConsumerService.startConsuming(): how the call ends, the isRunning
\* flag after it and whether consumer.run was called, given how
\* `await this.consumer.run(...)` ends.
startConsuming(isConnected, isRunning, runOutcome) ==
  IF ~isConnected
    THEN [outcome |-> "rejected", error |-> ConsumerNotConnectedError,
          isRunning |-> isRunning, runCalled |-> FALSE]
    ELSE [outcome |-> runOutcome.outcome, error |-> runOutcome.error,
          isRunning |-> TRUE, runCalled |-> TRUE]

Resolved == [outcome |-> "resolved", error |-> ""]
Rejected(error) == [outcome |-> "rejected", error |-> error]

\* No lifecycle call on the consumer is in flight (the caller awaits each).
ConsumerCallable == consumerLast.outcome # "pending"

\* connect(): consumer.connect() and consumer.subscribe() both succeed.
ConsumerConnect ==
  /\ ~consumerIsConnected
  /\ ConsumerCallable
  /\ consumerIsConnected' = consumerConnect(consumerIsConnected, "resolved")
  /\ subscribed' = TRUE
  /\ position' = [p \in Partitions |-> SubscribeOffset(p)]
  /\ consumerLast' = Call(consumerLast, "connect", "resolved", "")
  /\ consumerPhase' = "connected"
  /\ UNCHANGED <<consumerIsRunning, runnerStarted, producerVars, topic, nRewinds,
                 producerLast,
                 storeVars, callVars, consumerVars, historyVars>>

\* startConsuming() while connected: isRunning is set and consumer.run starts
\* the receive loop.
StartConsuming ==
  /\ consumerIsConnected
  /\ ~consumerIsRunning
  /\ ConsumerCallable
  /\ LET call == startConsuming(consumerIsConnected, consumerIsRunning, Resolved) IN
       /\ consumerIsRunning' = call.isRunning
       /\ runnerStarted' = (runnerStarted \/ call.runCalled)
       /\ consumerLast' = Call(consumerLast, "startConsuming", call.outcome, call.error)
  /\ UNCHANGED <<consumerIsConnected, subscribed, producerVars, brokerVars,
                 producerLast, consumerPhase,
                 storeVars, callVars, consumerVars, historyVars>>

\* The receive loop hands the next message of partition p to eachMessage.
\* consumer.run is called without partitionsConsumedConcurrently: one
\* eachMessage invocation at a time.
DeliverNext(p) ==
  /\ subscribed /\ runnerStarted
  /\ \A h \in Handlers : handlers[h].pc = "idle"
  /\ position[p] < Len(topic[p])
  /\ \E m \in {topic[p][position[p] + 1]} : Deliver(1, m)
  /\ position' = [position EXCEPT ![p] = @ + 1]
  /\ UNCHANGED <<producerVars, topic, nRewinds, lifecycleVars, serviceVars>>

ResumeNext(h) == Resume(h) /\ UNCHANGED pipelineVars

\* Redelivery: after a rebalance or a session timeout the group resumes
\* partition p from an earlier offset (processing is at least once).
Rewind(p, offset) ==
  /\ subscribed /\ runnerStarted
  /\ nRewinds < MaxRewinds
  /\ offset < position[p]
  /\ position' = [position EXCEPT ![p] = offset]
  /\ nRewinds' = nRewinds + 1
  /\ UNCHANGED <<producerVars, topic, lifecycleVars, serviceVars, storeVars, callVars,
                 consumerVars, historyVars>>

NextPipeline ==
  \/ ProducerConnect
  \/ \E r \in RequestIds, body \in Bodies, ts \in Timestamps : GenerateEvent(r, body, ts)
  \/ \E r \in RequestIds : Transmit(r)
  \/ \E r \in RequestIds : SendResolves(r)
  \/ \E r \in RequestIds, error \in BrokerErrors : SendRejects(r, error)
  \/ ConsumerConnect
  \/ StartConsuming
  \/ \E p \in Partitions : DeliverNext(p)
  \/ \E h \in Handlers : ResumeNext(h)
  \/ \E p \in Partitions, offset \in 0..(MaxRequests * MaxTransmits) : Rewind(p, offset)

SpecPipeline == Init /\ [][NextPipeline]_vars

\* A message of partition p waits for the receive loop: the condition under
\* which DeliverNext(p) can happen.
MessageWaiting(p) ==
  /\ LoopAlive
  /\ subscribed /\ runnerStarted
  /\ \A h \in Handlers : handlers[h].pc = "idle"
  /\ position[p] < Len(topic[p])

\* The consumer's position in partition p moves past the waiting message: the
\* steps of DeliverNext(p), told by what they do to position.
Fetch(p) == MessageWaiting(p) /\ position' = [position EXCEPT ![p] = @ + 1]

\* Fair broker delivery: a message waiting at the consumer's position is
\* eventually handed to eachMessage, and a suspended handler is eventually
\* resumed by the event loop.
FairPipeline ==
  /\ SpecPipeline
  /\ \A p \in Partitions : WF_position(Fetch(p))
  /\ \A h \in Handlers : WF_vars(ResumeNext(h))

(***************************************************************************)
(* The lifecycle of the two services with its failures: connect,           *)
(* startConsuming and disconnect called in any order, each call awaited by *)
(* its caller, the broker client resolving or rejecting each await.        *)
(***************************************************************************)
\* What a step of the producer's lifecycle leaves alone.
besidesProducer == <<requests, nextUuid, acked, brokerVars, lifecycleVars, consumerLast,
                     consumerPhase, storeVars, callVars, consumerVars, historyVars>>
\* What a step of the consumer's lifecycle leaves alone, the flags apart.
besidesConsumer == <<producerVars, producerLast, topic, nRewinds, storeVars, callVars,
                     consumerVars, historyVars>>

\* connect() on a producer that is already connected; the client resolves.
ProducerReconnect ==
  /\ producerIsConnected
  /\ producerLast.n < MaxLifecycleCalls
  /\ producerIsConnected' = producerConnect(producerIsConnected, "resolved")
  /\ producerLast' = Call(producerLast, "connect", "resolved", "")
  /\ UNCHANGED besidesProducer

\* connect(): producer.connect() rejects; the catch block rethrows.
ProducerConnectFails(error) ==
  /\ producerLast.n < MaxLifecycleCalls
  /\ producerIsConnected' = producerConnect(producerIsConnected, "rejected")
  /\ producerLast' = Call(producerLast, "connect", "rejected", error)
  /\ UNCHANGED besidesProducer

\* disconnect(): producer.disconnect() resolves.
ProducerDisconnect ==
  /\ producerLast.n < MaxLifecycleCalls
  /\ producerIsConnected' = producerDisconnect(producerIsConnected, "resolved")
  /\ producerLast' = Call(producerLast, "disconnect", "resolved", "")
  /\ UNCHANGED besidesProducer

\* disconnect(): producer.disconnect() rejects; the catch block rethrows.
ProducerDisconnectFails(error) ==
  /\ producerLast.n < MaxLifecycleCalls
  /\ producerIsConnected' = producerDisconnect(producerIsConnected, "rejected")
  /\ producerLast' = Call(producerLast, "disconnect", "rejected", error)
  /\ UNCHANGED besidesProducer

\* connect() on a consumer whose flag is already set; both awaits resolve.
ConsumerReconnect ==
  /\ consumerIsConnected
  /\ ConsumerCallable
  /\ consumerLast.n < MaxLifecycleCalls
  /\ consumerIsConnected' = consumerConnect(consumerIsConnected, "resolved")
  /\ subscribed' = TRUE
  /\ position' = [p \in Partitions |-> SubscribeOffset(p)]
  /\ consumerLast' = Call(consumerLast, "connect", "resolved", "")
  /\ consumerPhase' = "connected"
  /\ UNCHANGED <<consumerIsRunning, runnerStarted, besidesConsumer>>

\* connect() fails: consumer.connect() rejects (stage "connect"), or it
\* resolves and consumer.subscribe() rejects (stage "subscribe").
ConsumerConnectFails(stage, error) ==
  /\ ConsumerCallable
  /\ consumerLast.n < MaxLifecycleCalls
  /\ consumerIsConnected' =
       consumerConnect(consumerIsConnected,
                       IF stage = "connect" THEN "rejected" ELSE "resolved")
  /\ consumerLast' = Call(consumerLast, "connect", "rejected", error)
  /\ UNCHANGED <<consumerIsRunning, subscribed, runnerStarted, position,
                 consumerPhase, besidesConsumer>>

\* startConsuming() while isConnected is false.
StartConsumingNotConnected ==
  /\ ~consumerIsConnected
  /\ ConsumerCallable
  /\ consumerLast.n < MaxLifecycleCalls
  /\ LET call == startConsuming(consumerIsConnected, consumerIsRunning, Resolved) IN
       /\ consumerIsRunning' = call.isRunning
       /\ runnerStarted' = (runnerStarted \/ call.runCalled)
       /\ consumerLast' = Call(consumerLast, "startConsuming", call.outcome, call.error)
  /\ UNCHANGED <<consumerIsConnected, subscribed, position, consumerPhase,
                 besidesConsumer>>

\* startConsuming() while connected, and consumer.run rejects: the loop is
\* not started.
StartConsumingRunFails(error) ==
  /\ consumerIsConnected
  /\ ~consumerIsRunning
  /\ ConsumerCallable
  /\ consumerLast.n < MaxLifecycleCalls
  /\ LET call == startConsuming(consumerIsConnected, consumerIsRunning, Rejected(error)) IN
       /\ consumerIsRunning' = call.isRunning
       /\ consumerLast' = Call(consumerLast, "startConsuming", call.outcome, call.error)
  /\ UNCHANGED <<consumerIsConnected, subscribed, runnerStarted, position,
                 consumerPhase, besidesConsumer>>

\* disconnect() up to `await this.consumer.disconnect()`.
ConsumerDisconnectBegin ==
  /\ ConsumerCallable
  /\ consumerLast.n < MaxLifecycleCalls
  /\ consumerIsRunning' = FALSE
  /\ consumerLast' = Call(consumerLast, "disconnect", "pending", "")
  /\ UNCHANGED <<consumerIsConnected, subscribed, runnerStarted, position,
                 consumerPhase, besidesConsumer>>

\* consumer.disconnect() resolves: the client has stopped the receive loop
\* (after the eachMessage invocation in flight) and left the group.
ConsumerDisconnectResolves ==
  /\ consumerLast.op = "disconnect" /\ consumerLast.outcome = "pending"
  /\ \A h \in Handlers : handlers[h].pc = "idle"
  /\ consumerIsConnected' = FALSE
  /\ runnerStarted' = FALSE
  /\ subscribed' = FALSE
  /\ consumerPhase' = "disconnected"
  /\ consumerLast' = [consumerLast EXCEPT !.outcome = "resolved"]
  /\ UNCHANGED <<consumerIsRunning, position, besidesConsumer>>

\* consumer.disconnect() rejects; the catch block rethrows.
ConsumerDisconnectRejects(error) ==
  /\ consumerLast.op = "disconnect" /\ consumerLast.outcome = "pending"
  /\ consumerLast' = [consumerLast EXCEPT !.outcome = "rejected", !.error = error]
  /\ UNCHANGED <<lifecycleVars, position, consumerPhase, besidesConsumer>>

\* The requests the lifecycle is exercised with.
ServiceBodies == {Body(Str("u1"), Str("LOGIN"), Undefined)}

\* The producer's lifecycle, with requests arriving at any time.
NextProducerLifecycle ==
  \/ ProducerConnect
  \/ ProducerReconnect
  \/ \E error \in ClientErrors : ProducerConnectFails(error)
  \/ ProducerDisconnect
  \/ \E error \in ClientErrors : ProducerDisconnectFails(error)
  \/ \E r \in RequestIds, body \in ServiceBodies, ts \in Timestamps : GenerateEvent(r, body, ts)
  \/ \E r \in RequestIds : Transmit(r)
  \/ \E r \in RequestIds : SendResolves(r)
  \/ \E r \in RequestIds, error \in BrokerErrors : SendRejects(r, error)

SpecProducerLifecycle == Init /\ [][NextProducerLifecycle]_vars

\* The consumer's lifecycle, with a connected producer filling the topic.
NextConsumerLifecycle ==
  \/ ProducerConnect
  \/ \E r \in RequestIds, body \in ServiceBodies, ts \in Timestamps : GenerateEvent(r, body, ts)
  \/ \E r \in RequestIds : Transmit(r)
  \/ \E r \in RequestIds : SendResolves(r)
  \/ ConsumerConnect
  \/ ConsumerReconnect
  \/ \E stage \in {"connect", "subscribe"}, error \in ClientErrors :
       ConsumerConnectFails(stage, error)
  \/ StartConsuming
  \/ StartConsumingNotConnected
  \/ \E error \in ClientErrors : StartConsumingRunFails(error)
  \/ ConsumerDisconnectBegin
  \/ ConsumerDisconnectResolves
  \/ \E error \in ClientErrors : ConsumerDisconnectRejects(error)
  \/ \E p \in Partitions : DeliverNext(p)
  \/ \E h \in Handlers : ResumeNext(h)

SpecConsumerLifecycle == Init /\ [][NextConsumerLifecycle]_vars

(***************************************************************************)
(* The consumer's lifecycle when its methods are called without awaiting   *)
(* the call before: each call runs up to its next await, and any other     *)
(* call may run before the broker client settles it.                       *)
(***************************************************************************)
\* The calls that may be in flight at once.
CallSlots == 1..MaxOverlappingCalls

\* A call enters the lowest idle slot.
FreeSlot(c) ==
  /\ calls.n < MaxInterleavedCalls
  /\ calls.at[c] = "idle"
  /\ \A d \in CallSlots : d < c => calls.at[d] # "idle"

Enter(c, stage) == [at |-> [calls.at EXCEPT ![c] = stage], n |-> calls.n + 1]
Move(c, stage) == [calls EXCEPT !.at[c] = stage]

\* What the consumer's lifecycle methods leave alone, their own flags and
\* the broker client's state apart.
besidesCalls == <<storeVars, ret, nCalls, validations, returned, reply, server, shutdown,
                  consumerVars, historyVars, producerVars, topic, nRewinds,
                  producerLast, consumerLast>>

\* connect() up to `await this.consumer.connect()`.
CallConnect(c) ==
  /\ FreeSlot(c)
  /\ calls' = Enter(c, "connect")
  /\ UNCHANGED <<lifecycleVars, position, consumerPhase, besidesCalls>>

\* consumer.connect() resolves: isConnected = true, then connect() is at
\* `await this.consumer.subscribe(...)`.
ConnectResolves(c) ==
  /\ calls.at[c] = "connect"
  /\ consumerIsConnected' = consumerConnect(consumerIsConnected, "resolved")
  /\ calls' = Move(c, "subscribe")
  /\ UNCHANGED <<consumerIsRunning, subscribed, runnerStarted, position,
                 consumerPhase, besidesCalls>>

\* consumer.subscribe() resolves and connect() returns.
SubscribeResolves(c) ==
  /\ calls.at[c] = "subscribe"
  /\ subscribed' = TRUE
  /\ position' = [p \in Partitions |-> SubscribeOffset(p)]
  /\ consumerPhase' = "connected"
  /\ calls' = Move(c, "idle")
  /\ UNCHANGED <<consumerIsConnected, consumerIsRunning, runnerStarted, besidesCalls>>

\* consumer.connect() or consumer.subscribe() rejects; the catch block
\* rethrows and no flag is written.
ConnectRejects(c) ==
  /\ calls.at[c] \in {"connect", "subscribe"}
  /\ consumerIsConnected' = consumerConnect(consumerIsConnected, "rejected")
  /\ calls' = Move(c, "idle")
  /\ UNCHANGED <<consumerIsRunning, subscribed, runnerStarted, position,
                 consumerPhase, besidesCalls>>

\* startConsuming() up to `await this.consumer.run(...)`, or up to its
\* throw when isConnected is false.
CallStartConsuming(c) ==
  /\ FreeSlot(c)
  /\ LET call == startConsuming(consumerIsConnected, consumerIsRunning, Resolved) IN
       /\ consumerIsRunning' = call.isRunning
       /\ calls' = IF call.runCalled THEN Enter(c, "run")
                                     ELSE [calls EXCEPT !.n = @ + 1]
  /\ UNCHANGED <<consumerIsConnected, subscribed, runnerStarted, position,
                 consumerPhase, besidesCalls>>

\* consumer.run() resolves: the receive loop is started.
RunResolves(c) ==
  /\ calls.at[c] = "run"
  /\ runnerStarted' = TRUE
  /\ calls' = Move(c, "idle")
  /\ UNCHANGED <<consumerIsConnected, consumerIsRunning, subscribed, position,
                 consumerPhase, besidesCalls>>

\* consumer.run() rejects; the catch block rethrows.
RunRejects(c) ==
  /\ calls.at[c] = "run"
  /\ calls' = Move(c, "idle")
  /\ UNCHANGED <<lifecycleVars, position, consumerPhase, besidesCalls>>

\* disconnect() up to `await this.consumer.disconnect()`.
CallDisconnect(c) ==
  /\ FreeSlot(c)
  /\ consumerIsRunning' = FALSE
  /\ calls' = Enter(c, "disconnect")
  /\ UNCHANGED <<consumerIsConnected, subscribed, runnerStarted, position,
                 consumerPhase, besidesCalls>>

\* consumer.disconnect() resolves: isConnected = false.
DisconnectResolves(c) ==
  /\ calls.at[c] = "disconnect"
  /\ consumerIsConnected' = FALSE
  /\ runnerStarted' = FALSE
  /\ subscribed' = FALSE
  /\ consumerPhase' = "disconnected"
  /\ calls' = Move(c, "idle")
  /\ UNCHANGED <<consumerIsRunning, position, besidesCalls>>

\* consumer.disconnect() rejects; the catch block rethrows.
DisconnectRejects(c) ==
  /\ calls.at[c] = "disconnect"
  /\ calls' = Move(c, "idle")
  /\ UNCHANGED <<lifecycleVars, position, consumerPhase, besidesCalls>>

NextConsumerInterleaved ==
  \/ \E c \in CallSlots : CallConnect(c)
  \/ \E c \in CallSlots : ConnectResolves(c)
  \/ \E c \in CallSlots : SubscribeResolves(c)
  \/ \E c \in CallSlots : ConnectRejects(c)
  \/ \E c \in CallSlots : CallStartConsuming(c)
  \/ \E c \in CallSlots : RunResolves(c)
  \/ \E c \in CallSlots : RunRejects(c)
  \/ \E c \in CallSlots : CallDisconnect(c)
  \/ \E c \in CallSlots : DisconnectResolves(c)
  \/ \E c \in CallSlots : DisconnectRejects(c)

SpecConsumerInterleaved == Init /\ [][NextConsumerInterleaved]_vars


(***************************************************************************)
(* startApplication and gracefulShutdown (src/src/index.js).               *)
(***************************************************************************)
\* A shutdown that leaves the HTTP server as it is.
serverClose_Skipped(state) == state

\* server.close(): the server stops accepting connections (the callback,
\* which only logs, is not waited for).
serverClose(state) == "closed"

\* process.exit has not been called.
Alive == shutdown \notin {"exit0", "exit1"}

\* What a step of gracefulShutdown leaves alone, the services apart.
besidesShutdown == <<storeVars, ret, nCalls, validations, returned, reply, calls, consumerVars,
                     historyVars, brokerVars, requests, nextUuid, acked>>

\* startApplication: the three awaits one after the other, then app.listen
\* and the registration of the signal handlers.
StartProducer == Alive /\ server = "none" /\ ProducerConnect
StartConsumer == Alive /\ server = "none" /\ producerIsConnected /\ ConsumerConnect
StartLoop == Alive /\ server = "none" /\ producerIsConnected /\ StartConsuming

\* `await kafkaProducer.connect()` throws: the catch block of
\* startApplication calls process.exit(1).
StartProducerFails(error) ==
  /\ Alive /\ server = "none"
  /\ producerLast.n = 0
  /\ producerIsConnected' = producerConnect(producerIsConnected, "rejected")
  /\ producerLast' = Call(producerLast, "connect", "rejected", error)
  /\ shutdown' = "exit1"
  /\ UNCHANGED <<besidesShutdown, server, lifecycleVars, consumerLast, consumerPhase>>

\* `await kafkaConsumer.connect()` throws, at consumer.connect() or at
\* consumer.subscribe(): process.exit(1).
StartConsumerFails(stage, error) ==
  /\ Alive /\ server = "none"
  /\ producerIsConnected
  /\ consumerLast.n = 0
  /\ consumerIsConnected' =
       consumerConnect(consumerIsConnected,
                       IF stage = "connect" THEN "rejected" ELSE "resolved")
  /\ consumerLast' = Call(consumerLast, "connect", "rejected", error)
  /\ shutdown' = "exit1"
  /\ UNCHANGED <<besidesShutdown, server, producerIsConnected, consumerIsRunning, subscribed,
                 runnerStarted, producerLast, consumerPhase>>

\* `await kafkaConsumer.startConsuming()` throws (consumer.run rejects):
\* process.exit(1).
StartLoopFails(error) ==
  /\ Alive /\ server = "none"
  /\ consumerLast.op = "connect" /\ consumerLast.outcome = "resolved"
  /\ LET call == startConsuming(consumerIsConnected, consumerIsRunning, Rejected(error)) IN
       /\ consumerIsRunning' = call.isRunning
       /\ consumerLast' = Call(consumerLast, "startConsuming", call.outcome, call.error)
  /\ shutdown' = "exit1"
  /\ UNCHANGED <<besidesShutdown, server, producerIsConnected, consumerIsConnected,
                 subscribed, runnerStarted, producerLast, consumerPhase>>

\* A server that starts listening before the broker steps are through.
Listen_Early ==
  /\ Alive
  /\ server = "none"
  /\ server' = "listening"
  /\ UNCHANGED <<shutdown, besidesShutdown, producerIsConnected, lifecycleVars, serviceVars>>

Listen ==
  /\ Alive
  /\ server = "none"
  /\ producerIsConnected
  /\ consumerLast.op = "startConsuming" /\ consumerLast.outcome = "resolved"
  /\ server' = "listening"
  /\ UNCHANGED <<shutdown, besidesShutdown, producerIsConnected, lifecycleVars, serviceVars>>

\* The server accepts a POST /events/generate request; express reads its
\* body before the route handler runs.
Accept(r) ==
  /\ Alive
  /\ server = "listening"
  /\ requests[r].pc = "new"
  /\ \A k \in RequestIds : k < r => requests[k].pc # "new"
  /\ requests' = [requests EXCEPT ![r].pc = "accepted"]
  /\ UNCHANGED <<storeVars, ret, nCalls, validations, returned, appVars, consumerVars,
                 historyVars, brokerVars, producerIsConnected, nextUuid, acked,
                 lifecycleVars, serviceVars>>

\* The route handler of an accepted request runs to its first await.
Serve(r, body, ts) == Alive /\ requests[r].pc = "accepted" /\ GenerateEvent(r, body, ts)

\* SIGTERM or SIGINT: gracefulShutdown up to `await kafkaConsumer.disconnect()`,
\* that call up to `await this.consumer.disconnect()` included.
ShutdownBegin ==
  /\ server = "listening"
  /\ shutdown = "none"
  /\ server' = serverClose(server)
  /\ consumerIsRunning' = FALSE
  /\ consumerLast' = Call(consumerLast, "disconnect", "pending", "")
  /\ shutdown' = "consumer"
  /\ UNCHANGED <<besidesShutdown, producerIsConnected, consumerIsConnected, subscribed,
                 runnerStarted, producerLast, consumerPhase>>

\* consumer.disconnect() resolves; gracefulShutdown goes on to
\* `await kafkaProducer.disconnect()`, up to `await this.producer.disconnect()`.
ShutdownConsumerResolves ==
  /\ shutdown = "consumer"
  /\ \A h \in Handlers : handlers[h].pc = "idle"
  /\ consumerIsConnected' = FALSE
  /\ runnerStarted' = FALSE
  /\ subscribed' = FALSE
  /\ consumerPhase' = "disconnected"
  /\ consumerLast' = [consumerLast EXCEPT !.outcome = "resolved"]
  /\ producerLast' = Call(producerLast, "disconnect", "pending", "")
  /\ shutdown' = "producer"
  /\ UNCHANGED <<besidesShutdown, server, producerIsConnected, consumerIsRunning>>

\* consumer.disconnect() rejects: disconnect() rethrows and the catch block of
\* gracefulShutdown calls process.exit(1).
ShutdownConsumerRejects(error) ==
  /\ shutdown = "consumer"
  /\ consumerLast' = [consumerLast EXCEPT !.outcome = "rejected", !.error = error]
  /\ shutdown' = "exit1"
  /\ UNCHANGED <<besidesShutdown, server, producerIsConnected, lifecycleVars,
                 producerLast, consumerPhase>>

\* producer.disconnect() resolves: the flag is cleared and gracefulShutdown
\* calls process.exit(0).
ShutdownProducerResolves ==
  /\ shutdown = "producer"
  /\ producerIsConnected' = producerDisconnect(producerIsConnected, "resolved")
  /\ producerLast' = [producerLast EXCEPT !.outcome = "resolved"]
  /\ shutdown' = "exit0"
  /\ UNCHANGED <<besidesShutdown, server, lifecycleVars, consumerLast, consumerPhase>>

\* producer.disconnect() rejects: process.exit(1).
ShutdownProducerRejects(error) ==
  /\ shutdown = "producer"
  /\ producerIsConnected' = producerDisconnect(producerIsConnected, "rejected")
  /\ producerLast' = [producerLast EXCEPT !.outcome = "rejected", !.error = error]
  /\ shutdown' = "exit1"
  /\ UNCHANGED <<besidesShutdown, server, lifecycleVars, consumerLast, consumerPhase>>

\* The application from its start to its exit.
NextShutdown ==
  \/ StartProducer
  \/ StartConsumer
  \/ StartLoop
  \/ \E error \in ClientErrors : StartProducerFails(error)
  \/ \E stage \in {"connect", "subscribe"}, error \in ClientErrors :
       StartConsumerFails(stage, error)
  \/ \E error \in ClientErrors : StartLoopFails(error)
  \/ Listen
  \/ \E r \in RequestIds : Accept(r)
  \/ \E r \in RequestIds, body \in ServiceBodies, ts \in Timestamps : Serve(r, body, ts)
  \/ \E r \in RequestIds : Alive /\ Transmit(r)
  \/ \E r \in RequestIds : Alive /\ SendResolves(r)
  \/ \E p \in Partitions : Alive /\ DeliverNext(p)
  \/ \E h \in Handlers : Alive /\ ResumeNext(h)
  \/ ShutdownBegin
  \/ ShutdownConsumerResolves
  \/ \E error \in ClientErrors : ShutdownConsumerRejects(error)
  \/ ShutdownProducerResolves
  \/ \E error \in ClientErrors : ShutdownProducerRejects(error)

SpecShutdown == Init /\ [][NextShutdown]_vars

(***************************************************************************)
(* The query handlers: GET /health and GET /events/processed.              *)
(***************************************************************************)
\* A health check that always answers 200.
healthCheck_Always200 ==
  [status |-> 200,
   producer |-> IF producerIsConnected THEN "connected" ELSE "disconnected",
   processedEvents |-> getEventCount]

\* healthCheck: the status code and the two fields of the body that tell the
\* state (body.status is 'ok' in every case).
healthCheck ==
  [status |-> IF producerIsConnected THEN 200 ELSE 503,
   producer |-> IF producerIsConnected THEN "connected" ELSE "disconnected",
   processedEvents |-> getEventCount]

\* The item of the response for one stored event, as res.json prints it.
Projection(event) ==
  [eventId |-> JsonOf(event.eventId), userId |-> JsonOf(event.userId),
   eventType |-> JsonOf(event.eventType), timestamp |-> JsonOf(event.timestamp),
   payload |-> JsonOf(event.payload)]

\* A handler that leaves out the latest event.
getProcessedEvents_DropsLast ==
  [status |-> 200,
   count |-> Len(getAllEvents),
   events |-> [i \in 1..(IF Len(getAllEvents) = 0 THEN 0 ELSE Len(getAllEvents) - 1) |->
                 Projection(getAllEvents[i])]]

\* getProcessedEvents: 200 with the count and the projected events.
getProcessedEvents ==
  [status |-> 200,
   count |-> Len(getAllEvents),
   events |-> [i \in 1..Len(getAllEvents) |-> Projection(getAllEvents[i])]]

\* What a query leaves alone: everything but its own response.
besidesReply == <<storeVars, ret, nCalls, validations, returned, server, shutdown, calls,
                  consumerVars, historyVars, pipelineVars>>

\* GET /health
HealthCheck ==
  /\ reply.n < MaxQueries
  /\ reply' = [NoReply EXCEPT !.n = reply.n + 1, !.route = "/health",
                              !.status = healthCheck.status,
                              !.producer = healthCheck.producer,
                              !.processedEvents = healthCheck.processedEvents]
  /\ UNCHANGED besidesReply

\* GET /events/processed
GetProcessedEvents ==
  /\ reply.n < MaxQueries
  /\ reply' = [NoReply EXCEPT !.n = reply.n + 1, !.route = "/events/processed",
                              !.status = getProcessedEvents.status,
                              !.count = getProcessedEvents.count,
                              !.events = getProcessedEvents.events]
  /\ UNCHANGED besidesReply

\* A delivery while the queries are served.
QueryDeliver(h, m) ==
  /\ nDeliveries < MaxQueryDeliveries
  /\ Deliver(h, m)
  /\ UNCHANGED pipelineVars

\* Queries at any time, while the consumer fills the store and the producer
\* connects and disconnects.
NextQueries ==
  \/ ProducerConnect
  \/ ProducerDisconnect
  \/ \E h \in Handlers, m \in Messages : QueryDeliver(h, m)
  \/ \E h \in Handlers : ResumeAny(h)
  \/ ClearAny
  \/ HealthCheck
  \/ GetProcessedEvents

SpecQueries == Init /\ [][NextQueries]_vars

(***************************************************************************)
(* Properties of the EventStore under direct calls (SpecStore).            *)
(***************************************************************************)
\* A step of the behaviour that is a call of addEvent.
AddEventStep == ret'.op = "addEvent" /\ nCalls' = nCalls + 1

\* C2: addEvent(e) returns true exactly when e is non-null, carries a (truthy)
\* eventId and that id is not in the seen-id set; a true return appends e at
\* the end, adds the id to the set and raises the count by one; and an
\* addEvent that follows an accepted addEvent with the same eventId returns
\* false and adds nothing.
C2_AddEventContract ==
  [][AddEventStep =>
       LET e == ret'.event IN
         /\ ret'.bool <=>
              (EventTruthy(e) /\ Truthy(e.eventId) /\ e.eventId \notin processedEventIds)
         /\ ret'.bool =>
              /\ events' = Append(events, e)
              /\ processedEventIds' = processedEventIds \cup {e.eventId}
              /\ Len(events') = Len(events) + 1
         /\ (ret.op = "addEvent" /\ ret.bool /\ ret.event.eventId = e.eventId) =>
              (~ret'.bool /\ Len(events') = Len(events))]_vars

\* C2 witness: two calls were made, the first stored its event, the second
\* carried the same eventId and was refused.
C2_Witness ==
  /\ nCalls = 2
  /\ ret.op = "addEvent" /\ ~ret.bool
  /\ Len(events) = 1
  /\ events[1].eventId = ret.event.eventId

\* C3: the seen-id set is the set of eventIds of the stored entries, no two
\* entries share an eventId, the count is the size of the set, and hasEvent(id)
\* holds exactly for the ids of stored entries.
C3_Lockstep ==
  /\ processedEventIds = {events[i].eventId : i \in 1..Len(events)}
  /\ \A i, j \in 1..Len(events) : events[i].eventId = events[j].eventId => i = j
  /\ getEventCount = Cardinality(processedEventIds)
  /\ \A id \in EventIdArgs :
       hasEvent(id) <=> \E i \in 1..Len(events) : events[i].eventId = id

\* C3 witness: the last of the calls stored a second entry next to "e1".
C3_Witness ==
  /\ nCalls = MaxCalls
  /\ Len(events) = 2
  /\ ret.op = "addEvent" /\ ret.bool
  /\ hasEvent(Str("e1"))

\* C4: an addEvent that returns false leaves the sequence and the seen-id set
\* as they were (no stored entry is replaced or altered).
C4_RejectedAddChangesNothing ==
  [][(AddEventStep /\ ~ret'.bool) => UNCHANGED storeVars]_vars

\* C4 witness: a duplicate whose other fields differ from the stored entry was
\* refused, and the stored entry is still the first one.
C4_Witness ==
  /\ ret.op = "addEvent" /\ ~ret.bool
  /\ Len(events) = 1
  /\ events[1].eventId = ret.event.eventId
  /\ events[1] # ret.event

(***************************************************************************)
(* Properties of the consumer under arbitrary deliveries (SpecConsumer).   *)
(***************************************************************************)
\* A step of the behaviour in which the broker delivers a message.
DeliverStep == nDeliveries' = nDeliveries + 1

\* Stored entries whose eventId prints as the JSON value id.
EntriesWithJsonId(id) == {i \in 1..Len(events) : JsonOf(events[i].eventId) = id}
\* Stored entries whose eventId is the value id, as the Set compares.
EntriesWithId(id) == {i \in 1..Len(events) : events[i].eventId = id}
\* How often addEvent returned true for id since the last clear.
TimesAccepted(id) == Cardinality({i \in 1..Len(accepted) : accepted[i] = id})

\* C1: whatever the broker delivers, the store holds at most one entry per
\* eventId, and exactly one entry for every eventId delivered in a
\* structurally complete message since the last clear.
C1_OneEntryPerDeliveredId ==
  /\ \A i, j \in 1..Len(events) :
       JsonOf(events[i].eventId) = JsonOf(events[j].eventId) => i = j
  /\ \A id \in deliveredIds : Cardinality(EntriesWithJsonId(id)) = 1

\* C5: for every eventId some handler passed to addEvent, exactly one of the
\* addEvent calls returned true and the sequence holds exactly one entry with
\* it, also while several handlers are suspended; and in every state a
\* reader can see, the Set and the sequence agree.
C5_AtomicCheckAndInsert ==
  /\ \A id \in attempted : TimesAccepted(id) = 1 /\ Cardinality(EntriesWithId(id)) = 1
  /\ \A id \in attempted \cup processedEventIds :
       hasEvent(id) <=> \E i \in 1..Len(getAllEvents) : getAllEvents[i].eventId = id
  /\ getEventCount = Cardinality(processedEventIds)

\* C5 witness: two handlers are suspended at once, both called addEvent with
\* the same eventId, and only the first was told true.
C5_Witness ==
  /\ \A h \in {1, 2} : handlers[h].pc = "awaitProcessEvent" /\ handlers[h].addCalled
  /\ handlers[1].eventId = handlers[2].eventId
  /\ handlers[1].wasAdded /\ ~handlers[2].wasAdded

\* C8: a delivery writes the EVENT_CONSUMED line if and only if its event was
\* newly stored.
C8_AnnouncedIffNewlyStored ==
  [][DeliverStep =>
       /\ (Len(stdout') = Len(stdout) + 1) <=> last'.wasAdded
       /\ ~last'.wasAdded => stdout' = stdout]_vars

\* C9: no handleMessage invocation rejects (the receive loop stays alive), and
\* a complete message with an eventId not yet stored, delivered after a
\* malformed one, is stored by its delivery.
C9_MalformedNeverStopsTheLoop ==
  [][DeliverStep =>
       /\ last'.outcome # "rejected"
       /\ LoopAlive'
       /\ (malformedSeen /\ Complete(last'.message)
             /\ EntriesWithJsonId(last'.message.value.eventId) = {}) =>
            /\ last'.wasAdded
            /\ Len(events') = Len(events) + 1
            /\ JsonOf(events'[Len(events')].eventId) = last'.message.value.eventId
            /\ SubSeq(events', 1, Len(events)) = events]_vars

\* C9 witness: a malformed message was delivered, a later complete one was
\* stored, and every invocation has resolved.
C9_Witness ==
  /\ malformedSeen
  /\ Complete(last.message) /\ last.wasAdded
  /\ \A h \in Handlers : handlers[h].pc = "idle" /\ handlers[h].outcome \in {"none", "resolved"}
  /\ handlers[1].outcome = "resolved"

\* A message whose text parsed as JSON.
Deserialized(message) == message.value.doc \in {"object", "number", "null"}

\* C10: a deserialized message that lacks eventId, userId or eventType is
\* dropped: addEvent is not called, the store is unchanged, the loop lives.
C10_IncompleteMessageDropped ==
  [][(DeliverStep /\ Deserialized(last'.message) /\ ~Complete(last'.message)) =>
       /\ ~last'.addCalled
       /\ UNCHANGED storeVars
       /\ last'.outcome # "rejected"
       /\ LoopAlive']_vars

\* C10 witness: a message with an eventId and an eventType but no userId was
\* delivered to a store holding one entry, and was not handed to addEvent.
C10_Witness ==
  /\ last.message.value.doc = "object"
  /\ last.message.value.eventId = JStr("e1")
  /\ last.message.value.userId = NoField
  /\ ~last.addCalled
  /\ Len(events) = 1

(***************************************************************************)
(* Properties of the whole pipeline (SpecPipeline, FairPipeline).          *)
(***************************************************************************)
\* The place of the stored entry with eventId id.
StoreIndex(id) == CHOOSE i \in 1..Len(events) : events[i].eventId = id

\* C6: of two events of one user, the one whose publish was acknowledged
\* first is processed first by the consumer, and stands first in the store
\* when both are stored.
C6_SameUserOrder ==
  \A i, j \in 1..Len(acked) :
    (i < j /\ acked[i].userId = acked[j].userId) =>
      /\ acked[j].eventId \in attempted => acked[i].eventId \in attempted
      /\ (hasEvent(acked[i].eventId) /\ hasEvent(acked[j].eventId)) =>
           StoreIndex(acked[i].eventId) < StoreIndex(acked[j].eventId)

\* The same for publishes that do not overlap: the second request arrived
\* after the first had been acknowledged.
SequentialPublishesKeepOrder ==
  \A i, j \in 1..Len(acked) :
    (i <= acked[j].ackedAtStart /\ acked[i].userId = acked[j].userId) =>
      /\ acked[j].eventId \in attempted => acked[i].eventId \in attempted
      /\ (hasEvent(acked[i].eventId) /\ hasEvent(acked[j].eventId)) =>
           StoreIndex(acked[i].eventId) < StoreIndex(acked[j].eventId)

\* Within the pipeline the steps that Fetch(p) describes are exactly the steps
\* of DeliverNext(p).
FetchIsDeliverNext == [][\A p \in Partitions : Fetch(p) <=> DeliverNext(p)]_vars

\* POST /events/generate answered 201 for the event with this id.
Answered201(id) ==
  \E r \in RequestIds : requests[r].status = 201 /\ requests[r].event.eventId = id

ConsumerRunning == consumerIsConnected /\ subscribed /\ consumerIsRunning /\ runnerStarted

\* C7: under fair delivery, once the consumer is connected, subscribed and
\* running, every event answered with 201 is eventually in the store.
C7_PublishedEventuallyStored ==
  \A n \in 1..Len(Uuids) :
    (Answered201(Str(Uuids[n])) /\ ConsumerRunning) ~> hasEvent(Str(Uuids[n]))

\* C7 witness: an event acknowledged before the consumer subscribed is in the
\* store.
C7_Witness ==
  \E i \in 1..Len(acked) :
    /\ acked[i].beforeSubscribe
    /\ Answered201(acked[i].eventId)
    /\ hasEvent(acked[i].eventId)

(***************************************************************************)
(* Properties of POST /events/generate and publishEvent (SpecPipeline).    *)
(***************************************************************************)
\* The handler of request r runs its first segment in this step.
GenerateStep(r) == requests[r].pc = "new" /\ requests'[r].pc # "new"

\* The request's fields break a rule of the validator: userId is not a
\* non-empty string, eventType is not a string of the enumeration, or payload
\* is given and typeof payload is not 'object'.
FailsValidation(body) ==
  \/ ~(body.userId.t = "string" /\ body.userId.v # "")
  \/ ~(body.eventType.t = "string" /\ body.eventType.v \in {"LOGIN", "LOGOUT", "PRODUCT_VIEW"})
  \/ body.payload.t \notin {"undefined", "object", "null"}

FreshEventId(r) ==
  /\ requests[r].event.eventId.t = "string"
  /\ requests[r].event.eventId.v # ""
  /\ \A k \in RequestIds \ {r} : requests[k].event.eventId # requests[r].event.eventId

\* C15: a valid request made while the publisher is connected and whose send
\* the broker accepts is answered 201; publishEvent was invoked once, with an
\* event that carries the request's userId and eventType, a fresh eventId, a
\* timestamp and the request's payload (an empty mapping when the request has
\* none: no payload field, or null); the response carries that event's
\* eventId and timestamp.
C15_ValidRequestPublishedOnce ==
  \A r \in RequestIds :
    /\ (requests[r].pc = "done" /\ requests[r].connected /\ requests[r].sendError = "") =>
         requests[r].status = 201
    /\ requests[r].status = 201 =>
         /\ ~FailsValidation(requests[r].body)
         /\ requests[r].publishCalls = 1
         /\ requests[r].connected
         /\ requests[r].event.t = "object"
         /\ requests[r].event.userId = requests[r].body.userId
         /\ requests[r].event.eventType = requests[r].body.eventType
         /\ FreshEventId(r)
         /\ requests[r].event.timestamp.t = "string"
         /\ requests[r].event.payload =
              IF requests[r].body.payload \in {Undefined, Null}
                THEN Obj("{}", 0) ELSE requests[r].body.payload
         /\ requests[r].response = [eventId |-> requests[r].event.eventId,
                                    timestamp |-> requests[r].event.timestamp]
         /\ \E p \in Partitions : \E i \in 1..Len(topic[p]) :
              topic[p][i] = BuildMessage(requests[r].event)

\* C15 witness: a request with a payload and a request without one have both
\* been answered 201.
C15_Witness ==
  /\ \E r \in RequestIds :
       requests[r].status = 201 /\ requests[r].body.payload.t = "object"
  /\ \E r \in RequestIds :
       requests[r].status = 201 /\ requests[r].body.payload = Undefined

\* The handler of request r built an event.
Constructed(r) == requests[r].event.t = "object"

C17_StatusTellsTheCondition ==
  \A r \in RequestIds :
    (requests[r].pc = "done" /\ requests[r].publishCalls = 1) =>
      /\ requests[r].status = 503 <=> ~requests[r].connected
      /\ requests[r].status = 500 <=> (requests[r].connected /\ requests[r].sendError # "")

\* publishEvent is called for request r in this step.
PublishStep(r) == GenerateStep(r) /\ requests'[r].publishCalls = 1

\* producer.send of request r rejects in this step.
RejectStep(r) ==
  /\ requests[r].pc = "awaitSend"
  /\ requests'[r].pc = "done"
  /\ requests'[r].sendError # ""

\* C18: publishEvent called while isConnected is false throws the
\* not-connected error in the same step and nothing is sent; when
\* producer.send rejects, publishEvent throws that same error, nothing is
\* sent in that step, and nothing is sent for the request afterwards.
C18_PublishEventFailures ==
  [][\A r \in RequestIds :
       /\ (PublishStep(r) /\ ~producerIsConnected) =>
            /\ requests'[r].pc = "done"
            /\ requests'[r].error = NotConnectedError
            /\ requests'[r].transmits = 0
            /\ topic' = topic
       /\ (PublishStep(r) /\ producerIsConnected) => requests'[r].error = ""
       /\ RejectStep(r) =>
            /\ requests[r].connected
            /\ requests'[r].error = requests'[r].sendError
            /\ topic' = topic
       /\ requests[r].error # "" => requests'[r] = requests[r]]_vars

\* C18 witness: one publishEvent call failed for want of a connection, and
\* another failed with the broker's error after its message had been sent.
C18_Witness ==
  /\ \E r \in RequestIds : requests[r].error = NotConnectedError
  /\ \E r \in RequestIds :
       /\ requests[r].error = "Request timed out"
       /\ \E p \in Partitions : \E i \in 1..Len(topic[p]) :
            topic[p][i] = BuildMessage(requests[r].event)

(***************************************************************************)
(* Properties of the consumer's lifecycle (SpecConsumerLifecycle).         *)
(***************************************************************************)
\* C11: whenever the receive loop has been started, a connect() has
\* completed the connection and the subscription; and after a connect() that
\* failed, with none completed before it, isConnected is false, so that
\* startConsuming() fails.
C11_NoSkippedPredecessor ==
  /\ runnerStarted => consumerPhase = "connected"
  /\ (consumerLast.op = "connect" /\ consumerLast.outcome = "rejected"
        /\ consumerPhase # "connected") => ~consumerIsConnected

\* A startConsuming() call is made in this step.
StartConsumingStep ==
  consumerLast'.n = consumerLast.n + 1 /\ consumerLast'.op = "startConsuming"

\* C12: startConsuming() called while isConnected is false throws the
\* not-connected error and changes nothing besides: isRunning keeps its
\* value, the receive loop is not started, and no message is delivered while
\* the loop is not started.
C12_StartConsumingNeedsConnection ==
  [][/\ (StartConsumingStep /\ ~consumerIsConnected) =>
          /\ consumerLast'.outcome = "rejected"
          /\ consumerLast'.error = ConsumerNotConnectedError
          /\ UNCHANGED <<lifecycleVars, consumerPhase, producerVars, producerLast,
                         brokerVars, storeVars, callVars, consumerVars, historyVars>>
     /\ ~runnerStarted => UNCHANGED <<nDeliveries, events, processedEventIds>>]_vars

\* C12 witness: after a disconnect() of a consumer that had stored an event,
\* startConsuming() has failed for want of a connection, with a message
\* waiting in the topic.
C12_Witness ==
  /\ consumerLast.op = "startConsuming"
  /\ consumerLast.error = ConsumerNotConnectedError
  /\ consumerPhase = "disconnected"
  /\ ~consumerIsRunning /\ ~runnerStarted
  /\ Len(events) > 0
  /\ \E p \in Partitions : position[p] < Len(topic[p])

\* C13: once a disconnect() has completed, and until a connect() completes
\* again, isConnected is false (startConsuming() fails) and the receive loop
\* is stopped, so nothing is delivered or stored; right after the
\* disconnect() isRunning is false as well.
C13_DisconnectedStaysStopped ==
  consumerPhase = "disconnected" =>
    /\ ~consumerIsConnected
    /\ ~runnerStarted
    /\ consumerLast.op = "disconnect" => ~consumerIsRunning

(***************************************************************************)
(* Properties of the producer's lifecycle (SpecProducerLifecycle).         *)
(***************************************************************************)
\* C19: while the latest lifecycle call on the producer is a disconnect(),
\* the connected flag is false (so that publishEvent fails with the
\* not-connected error).
C19_DisconnectClearsFlag ==
  producerLast.op = "disconnect" => ~producerIsConnected

\* A connect() call on the producer is made in this step.
ProducerConnectStep ==
  producerLast'.n = producerLast.n + 1 /\ producerLast'.op = "connect"

\* C20: connect() sets the connected flag when the client's connect
\* resolves; when it rejects, the call throws the client's error and the flag
\* keeps its value; the flag is set by nothing but a connect() that resolved;
\* connect() on a connected producer leaves it connected.
C20_ConnectSetsFlagOnSuccess ==
  [][/\ ProducerConnectStep =>
          /\ producerLast'.outcome = "resolved" =>
               (producerIsConnected' /\ producerLast'.error = "")
          /\ producerLast'.outcome = "rejected" =>
               /\ producerIsConnected' = producerIsConnected
               /\ producerLast'.error \in ClientErrors
          /\ producerIsConnected => producerIsConnected'
          /\ UNCHANGED <<requests, topic>>
     /\ (producerIsConnected' /\ ~producerIsConnected) =>
          (ProducerConnectStep /\ producerLast'.outcome = "resolved")]_vars

\* C20 witness: a connect() has failed on a disconnected producer, which is
\* still disconnected.
C20_Witness ==
  /\ producerLast.op = "connect"
  /\ producerLast.outcome = "rejected"
  /\ ~producerIsConnected

(***************************************************************************)
(* Properties of the validator (SpecValidator).                            *)
(***************************************************************************)
\* The field is a string with at least one character.
NonEmptyString(x) == x.t = "string" /\ x.v # ""

\* The candidate passes every rule: it is there, userId is a non-empty
\* string, eventType is one of the three names, and payload is absent
\* (undefined or null) or an object (arrays are objects).
Acceptable(c) ==
  /\ c.t \notin {"null", "undefined"}
  /\ NonEmptyString(c.userId)
  /\ NonEmptyString(c.eventType)
  /\ c.eventType.v \in {"LOGIN", "LOGOUT", "PRODUCT_VIEW"}
  /\ c.payload.t \in {"undefined", "null", "object", "array"}

NonMappingPayload(c) ==
  c.t = "object" /\ c.payload.t \in {"string", "number", "boolean", "array"}

\* C22: a candidate whose payload is present and is not a mapping (a
\* string, a number, a boolean or an array) gets the payload error and is
\* invalid.
C22_NonMappingPayloadRejected ==
  \A i \in 1..Len(validations) :
    NonMappingPayload(validations[i].candidate) =>
      /\ ~validations[i].result.valid
      /\ Includes(validations[i].result.errors, "payload must be an object")

\* The errors expected of a candidate that is there: one per violated rule,
\* in rule order; for eventType the type error or else the membership error.
ExpectedErrors(c) ==
  (IF NonEmptyString(c.userId)
     THEN <<>> ELSE <<"userId is required and must be a string">>)
  \o (IF ~NonEmptyString(c.eventType)
        THEN <<"eventType is required and must be a string">>
      ELSE IF c.eventType.v \notin {"LOGIN", "LOGOUT", "PRODUCT_VIEW"}
        THEN <<"eventType must be one of: LOGIN, LOGOUT, PRODUCT_VIEW">>
        ELSE <<>>)
  \o (IF c.payload.t \in {"string", "number", "boolean"}
        THEN <<"payload must be an object">> ELSE <<>>)

\* A validateEventPayload call is made in this step.
ValidateStep == Len(validations') = Len(validations) + 1

CallerMutationStep == returned'.held /\ returned.held /\ returned'.n = returned.n + 1

\* C24: nothing a caller does to the value getAllEvents() returned (adding,
\* removing or reordering its elements, changing fields of its events)
\* changes the store's sequence or seen-id set, or what getAllEvents,
\* getEventCount and hasEvent return afterwards.
C24_ReturnedValueIsDetached ==
  [][CallerMutationStep =>
       /\ UNCHANGED storeVars
       /\ getAllEvents' = getAllEvents
       /\ getEventCount' = getEventCount
       /\ \A id \in EventIdArgs : hasEvent(id)' = hasEvent(id)]_vars

\* A step of the behaviour that is a call of clear().
ClearStep == ret'.op = "clear" /\ nCalls' = nCalls + 1

\* C25: clear() empties the sequence and the seen-id set whatever the state:
\* right afterwards getEventCount() is 0, getAllEvents() is empty, hasEvent
\* is false for every id, and addEvent accepts every event that was stored
\* before the clear.
C25_ClearResetsBoth ==
  [][ClearStep =>
       /\ events' = <<>> /\ processedEventIds' = {}
       /\ getEventCount' = 0
       /\ getAllEvents' = <<>>
       /\ \A id \in EventIdArgs \cup processedEventIds : ~hasEvent(id)'
       /\ \A e \in {events[i] : i \in 1..Len(events)} : (addEvent(e).value)']_vars

\* C25 witness: clear() has just been called on a store that held "e1" (the
\* caller still has the array it got before).
C25_Witness ==
  /\ ret.op = "clear"
  /\ returned.held /\ returned.items # <<>>
  /\ returned.items[1].slot = 0
  /\ returned.items[1].obj.eventId = Str("e1")

(***************************************************************************)
(* Properties of the store while messages are consumed (SpecConsumer).     *)
(***************************************************************************)
\* C26: between two clear() calls the stored sequence is append-only: a
\* step that is not a clear() leaves it as it is or adds one event at its
\* end; nothing stored is removed, replaced or moved.
C26_AppendOnlyBetweenClears ==
  [][\/ ClearStep
     \/ events' = events
     \/ /\ Len(events') = Len(events) + 1
        /\ SubSeq(events', 1, Len(events)) = events]_vars

\* C26 witness: two events are stored and a third delivery, a duplicate of
\* the first, was turned away.
C26_Witness ==
  /\ Len(events) = 2
  /\ nDeliveries = 3
  /\ last.addCalled /\ ~last.wasAdded
  /\ JsonOf(last.message.value.eventId) = JsonOf(events[1].eventId)

(***************************************************************************)
(* Properties of the query handlers (SpecQueries).                         *)
(***************************************************************************)
\* GET /health is answered in this step.
HealthStep == reply'.n = reply.n + 1 /\ reply'.route = "/health"

\* C29: GET /health answers 200 exactly when the producer's connected flag
\* is true and 503 otherwise; kafka.producer is 'connected' if and only if
\* the status is 200; eventStore.processedEvents is the store's count; the
\* call changes no state.
C29_HealthTellsTheFlag ==
  [][HealthStep =>
       /\ reply'.status = 200 <=> producerIsConnected
       /\ reply'.status \in {200, 503}
       /\ reply'.producer = "connected" <=> reply'.status = 200
       /\ reply'.processedEvents = Len(events)
       /\ UNCHANGED besidesReply]_vars

\* C29 witness: the producer has connected and been disconnected, two
\* events are stored, and the check answered 503 with the count 2.
C29_Witness ==
  /\ reply.route = "/health" /\ reply.status = 503
  /\ producerLast.op = "disconnect"
  /\ reply.processedEvents = 2

\* GET /events/processed is answered in this step.
ProcessedStep == reply'.n = reply.n + 1 /\ reply'.route = "/events/processed"

\* C30: GET /events/processed returns the store's whole sequence as of the
\* call, in insertion order, with count equal to the number of returned
\* events and no two returned events sharing an eventId; each item carries
\* the five fields of the stored event; the store is left unchanged.
C30_ProcessedIsTheStore ==
  [][ProcessedStep =>
       /\ reply'.status = 200
       /\ reply'.count = Len(reply'.events)
       /\ Len(reply'.events) = Len(events)
       /\ \A i \in 1..Len(events) : reply'.events[i] = Projection(events[i])
       /\ \A i, j \in 1..Len(reply'.events) :
            reply'.events[i].eventId = reply'.events[j].eventId => i = j
       /\ UNCHANGED besidesReply]_vars

\* The same without the distinctness of the returned eventIds.
ProcessedIsASnapshot ==
  [][ProcessedStep =>
       /\ reply'.status = 200
       /\ reply'.count = Len(reply'.events)
       /\ Len(reply'.events) = Len(events)
       /\ \A i \in 1..Len(events) : reply'.events[i] = Projection(events[i])
       /\ UNCHANGED besidesReply]_vars

(***************************************************************************)
(* Properties of the shutdown (SpecShutdown).                              *)
(***************************************************************************)
\* C27: on shutdown the HTTP server stops accepting, then the consumer is
\* disconnected, then the producer: the consumer's disconnect is never
\* called while the server still accepts, no request is accepted once the
\* server was closed, and the producer's disconnect is never called before
\* the consumer's has resolved and the receive loop has stopped.
C27_ShutdownOrder ==
  [][/\ consumerLast'.op = "disconnect" => server' = "closed"
     /\ server = "closed" =>
          \A r \in RequestIds : requests'[r].pc = "accepted" => requests[r].pc = "accepted"
     /\ producerLast'.op = "disconnect" =>
          /\ consumerLast'.op = "disconnect" /\ consumerLast'.outcome = "resolved"
          /\ ~consumerIsRunning' /\ ~runnerStarted'
          /\ server' = "closed"]_vars

\* C27 witness: a request was answered 201, its event was stored, and the
\* shutdown has run to process.exit(0).
C27_Witness ==
  /\ shutdown = "exit0"
  /\ ~producerIsConnected /\ ~consumerIsConnected
  /\ requests[1].status = 201
  /\ Len(events) = 1

\* The request was accepted and has no response yet.
Unanswered(r) == requests[r].pc \in {"accepted", "awaitSend"}

\* C28: while an accepted POST /events/generate request has not been
\* answered, the producer is connected and the process has not exited; so
\* every accepted request that reaches publishEvent finds the producer
\* connected.
C28_AcceptedWorkSettles ==
  /\ \A r \in RequestIds : Unanswered(r) => (producerIsConnected /\ Alive)
  /\ \A r \in RequestIds : requests[r].publishCalls > 0 => requests[r].connected

\* Without a shutdown every accepted request finds the producer connected.
AcceptedWorkSettlesBeforeShutdown ==
  shutdown = "none" =>
    /\ \A r \in RequestIds : Unanswered(r) => (producerIsConnected /\ Alive)
    /\ \A r \in RequestIds : requests[r].publishCalls > 0 => requests[r].connected

(***************************************************************************)
(* Properties of the whole path from POST /events/generate to the store    *)
(* (SpecPipeline).                                                         *)
(***************************************************************************)
\* The handler of request r built an event and handed it to producer.send.
Published(r) == requests[r].publishCalls > 0 /\ requests[r].connected

\* The stored entries with the eventId of event e.
EntriesOf(e) == {i \in 1..Len(events) : JsonOf(events[i].eventId) = JsonOf(e.eventId)}

\* The stored entry has the five fields of event e (as values; the consumer's
\* objects are its own).
SameEvent(entry, e) ==
  /\ JsonOf(entry.eventId) = JsonOf(e.eventId)
  /\ JsonOf(entry.userId) = JsonOf(e.userId)
  /\ JsonOf(entry.eventType) = JsonOf(e.eventType)
  /\ JsonOf(entry.timestamp) = JsonOf(e.timestamp)
  /\ JsonOf(entry.payload) = JsonOf(e.payload)

MessagesOf(e) ==
  {<<p, i>> \in Partitions \X (1..(MaxRequests * MaxTransmits)) :
     i <= Len(topic[p]) /\ topic[p][i].value.eventId = JsonOf(e.eventId)}

\* C33: every message on the topic was sent for a built event e: its key is
\* e.userId, its value is the JSON text of the whole event, payload
\* included, and its headers are exactly eventType and timestamp of e; a
\* publishEvent call makes one send with one message, so each transmission
\* puts one message on the configured topic.
C33_WireFormat ==
  /\ \A p \in Partitions : \A i \in 1..Len(topic[p]) :
       \E r \in RequestIds :
         /\ Published(r)
         /\ topic[p][i].key = JsonOf(requests[r].event.userId)
         /\ topic[p][i].value =
              Buffer("object", JsonOf(requests[r].event.eventId),
                     JsonOf(requests[r].event.userId), JsonOf(requests[r].event.eventType),
                     JsonOf(requests[r].event.timestamp), JsonOf(requests[r].event.payload))
         /\ topic[p][i].value.payload.t = "object"
         /\ DOMAIN topic[p][i].headers = {"eventType", "timestamp"}
         /\ topic[p][i].headers.eventType = JsonOf(requests[r].event.eventType)
         /\ topic[p][i].headers.timestamp = JsonOf(requests[r].event.timestamp)
  /\ \A r \in RequestIds :
       /\ requests[r].publishCalls <= 1
       /\ Published(r) =>
            /\ Cardinality(MessagesOf(requests[r].event)) <= MaxTransmits
            /\ requests[r].pc = "awaitSend" =>
                 Cardinality(MessagesOf(requests[r].event)) = requests[r].transmits

\* C33 witness: the message of a LOGOUT request without payload is on the
\* topic, keyed "u1", and the request was answered 201.
C33_Witness ==
  \E r \in RequestIds, p \in Partitions :
    /\ requests[r].status = 201
    /\ requests[r].body.payload = Null
    /\ Len(topic[p]) = 1
    /\ topic[p][1].key = JsonOf(Str("u1"))
    /\ topic[p][1].headers.eventType = JsonOf(Str("LOGOUT"))
    /\ topic[p][1].value.payload = JsonOf(Obj("{}", 0))

\* C32: POST /events/generate leaves the Event Store alone and does not
\* wait for the consumer: no step of a request changes the store; a request
\* is answered 201 in the very step in which the broker's acknowledgement of
\* its send arrives, and in no other; and the store only ever changes in a
\* step in which the consumer handles a delivered message.
C32_PublishIndependentOfStore ==
  [][/\ \A r \in RequestIds :
          /\ requests'[r] # requests[r] => UNCHANGED storeVars
          /\ (requests'[r].status = 201 /\ requests[r].status # 201) <=>
               /\ requests[r].pc = "awaitSend" /\ requests[r].transmits > 0
               /\ Len(acked') = Len(acked) + 1
               /\ acked'[Len(acked')].eventId = requests[r].event.eventId
     /\ storeVars' # storeVars => DeliverStep]_vars

\* C32 witness: one request was answered 201 while its event is not in the
\* store yet, and the event of another is in the store before its send was
\* acknowledged.
C32_Witness ==
  \E r, k \in RequestIds :
    /\ requests[r].status = 201 /\ ~hasEvent(requests[r].event.eventId)
    /\ requests[k].pc = "awaitSend" /\ hasEvent(requests[k].event.eventId)

(***************************************************************************)
(* Replay (SpecConsumer: the broker delivers any message any number of     *)
(* times).                                                                 *)
(***************************************************************************)
\* C34: replaying the topic is idempotent: delivering again a complete
\* message whose eventId was already delivered since the last clear leaves
\* the store as it is (same events, same order, same count), so that
\* re-delivering a whole processed sequence changes nothing.
C34_ReplayIsIdempotent ==
  [][(/\ DeliverStep
      /\ Complete(last'.message)
      /\ last'.message.value.eventId \in deliveredIds)
       => UNCHANGED storeVars]_vars

(***************************************************************************)
(* Properties of the startup (SpecShutdown).                               *)
(***************************************************************************)
\* A broker step of startApplication has failed.
StartupFailed ==
  \/ producerLast.op = "connect" /\ producerLast.outcome = "rejected"
  \/ consumerLast.op \in {"connect", "startConsuming"} /\ consumerLast.outcome = "rejected"

\* C35: startup is ordered: producer connect, consumer connect and
\* subscribe, startConsuming, and only then the HTTP server listens; while
\* the server accepts requests the producer is connected and the consumer
\* is connected, subscribed and started; when one of the three broker steps
\* fails the process exits with code 1 and the server never listens.
C35_StartupOrder ==
  /\ consumerLast.n > 0 =>
       /\ producerLast.n > 0
       /\ producerLast.op = "connect" => producerLast.outcome = "resolved"
  /\ consumerLast.op = "startConsuming" => (consumerIsConnected /\ subscribed)
  /\ server # "none" =>
       /\ producerLast.n > 0
       /\ consumerLast.n >= 2
       /\ ~StartupFailed
  /\ server = "listening" =>
       /\ producerIsConnected
       /\ consumerIsConnected /\ subscribed
       /\ consumerIsRunning /\ runnerStarted
  /\ StartupFailed => (shutdown = "exit1" /\ server = "none")

\* C35 witness: the producer and the consumer connected, consumer.run
\* failed, and the process exited with code 1 without a listening server.
C35_Witness ==
  /\ consumerLast.op = "startConsuming" /\ consumerLast.outcome = "rejected"
  /\ producerIsConnected /\ consumerIsConnected
  /\ shutdown = "exit1"
  /\ server = "none"

\* C37: gracefulShutdown ends the process once the broker calls return:
\* with code 0 exactly when the consumer's and the producer's disconnect
\* both resolved, with code 1 when one of them rejected; after an exit with
\* code 0 the consumer's isConnected and isRunning and the producer's
\* connected flag are all false.
C37_ShutdownExitCode ==
  /\ shutdown = "exit0" <=>
       /\ consumerLast.op = "disconnect" /\ consumerLast.outcome = "resolved"
       /\ producerLast.op = "disconnect" /\ producerLast.outcome = "resolved"
  /\ (\/ consumerLast.op = "disconnect" /\ consumerLast.outcome = "rejected"
      \/ producerLast.op = "disconnect" /\ producerLast.outcome = "rejected")
       => shutdown = "exit1"
  /\ shutdown \in {"consumer", "producer"} =>
       \/ consumerLast.op = "disconnect" /\ consumerLast.outcome = "pending"
       \/ producerLast.op = "disconnect" /\ producerLast.outcome = "pending"
  /\ shutdown = "exit0" =>
       (~consumerIsConnected /\ ~consumerIsRunning /\ ~producerIsConnected)

\* C37 witness: the consumer's disconnect resolved, the producer's rejected,
\* and the process exited with code 1 with the producer's flag still set.
C37_Witness ==
  /\ shutdown = "exit1"
  /\ consumerLast.op = "disconnect" /\ consumerLast.outcome = "resolved"
  /\ producerLast.op = "disconnect" /\ producerLast.outcome = "rejected"
  /\ producerIsConnected

\* C36: in every reachable state of the consumer, under any interleaving of
\* connect(), startConsuming() and disconnect(), each suspending at its broker
\* calls and each free to fail, isRunning = true implies isConnected = true.
C36_RunningImpliesConnected == consumerIsRunning => consumerIsConnected

\* C38: the store holds nothing the broker did not deliver: in every
\* reachable state each stored eventId is the eventId of a message the
\* consumer has received since the last clear (of a complete one, which is
\* the stronger statement), and every stored entry has a non-empty eventId,
\* userId and eventType.
C38_OnlyDeliveredEventsStored ==
  /\ {JsonOf(events[i].eventId) : i \in 1..Len(events)} \subseteq deliveredIds
  /\ \A i \in 1..Len(events) :
       /\ Truthy(events[i].eventId)
       /\ Truthy(events[i].userId)
       /\ Truthy(events[i].eventType)

\* An event is stored after a clear and after a message without its fields
\* was received: the store holds that one event, the only complete message
\* received since the clear.
C38_Witness ==
  /\ nCalls = 1
  /\ malformedSeen
  /\ Len(events) = 1
  /\ Cardinality(deliveredIds) = 1
  /\ last.wasAdded
====
